---- MODULE Spec2Model ----
(***************************************************************************)
(* Model of the automation core of claude-code-hands:                      *)
(*   - WorkflowCapture   (mcp-servers/recorder/capture.py)                 *)
(*   - AIOrchestrator    (mcp-servers/integration/orchestrator.py)         *)
(*   - SecurityValidator (mcp-servers/security/validator.py)               *)
(*   - AutonomousAgent   (mcp-servers/integration/autonomous_agent.py)     *)
(*   - WorkflowGenerator (mcp-servers/recorder/workflow_generator.py)      *)
(*   - RateLimiter       (mcp-servers/security/rate_limiter.py)            *)
(*   - replay_workflow   (mcp-servers/integration/server.py)               *)
(* Python values are tagged records (None, Str, Num, Bool, List, Dict);    *)
(* JSON text is a second family of tagged records, so that json.dump and   *)
(* json.load are conversions between two different representations.        *)
(***************************************************************************)
EXTENDS Integers, Sequences, FiniteSets, TLC

VARIABLES
    clock,               \* time.time(), in milliseconds
    is_recording,        \* WorkflowCapture.is_recording
    current_session,     \* WorkflowCapture.current_session
    action_start_times,  \* WorkflowCapture.action_start_times
    storage,             \* the files of WorkflowCapture.storage_dir: id -> JSON text
    ret,                 \* the last operation, its arguments and what it returned
    orch_is_recording,   \* AIOrchestrator.is_recording
    current_session_id,  \* AIOrchestrator.current_session_id
    securityOK,          \* AIOrchestrator.security loads (is not None)
    memoryOK,            \* AIOrchestrator.memory loads (is not None)
    visionOK,            \* AIOrchestrator.vision loads (is not None)
    memory_log,          \* calls received by the memory collaborator's store_action_memory
    trace,               \* the steps of the latest execute_secure_action call, in order
    agent,               \* AutonomousAgent: configuration and position in the goal cycle
    issued,              \* the orchestrator calls the goal cycles have issued, in order
    run,                 \* execute_goal_autonomously: its arguments, locals and position
    generator,           \* WorkflowGenerator: its settings
    recorded,            \* the RecordingSession given to the generator
    workflow,            \* what generate_workflow returned, None before it is called
    pipeline,            \* generate_workflow taken statement by statement: its locals
    inflight,            \* the execute_secure_action coroutines run as concurrent tasks
    buckets,             \* RateLimiter.buckets: bucket key -> bucket
    granted,             \* the requests check_rate_limit allowed: (identifier, action) -> times
    replay               \* replay_workflow: its arguments, locals and position

recVars  == <<is_recording, current_session, action_start_times, storage>>
orchVars == <<orch_is_recording, current_session_id, memory_log, trace>>
genVars  == <<generator, recorded, workflow, pipeline>>
limVars  == <<buckets, granted>>
\* the limiter and the replay tool, which no other component touches
auxVars  == <<limVars, replay>>
\* what no step of the recorder, the orchestrator or the agent changes
envVars  == <<securityOK, memoryOK, visionOK, auxVars, genVars, inflight>>
agentVars == <<agent, issued, run>>
vars == <<clock, is_recording, current_session, action_start_times, storage, ret,
          orch_is_recording, current_session_id, securityOK, memoryOK, visionOK,
          memory_log, trace, agent, issued, run, generator, recorded, workflow,
          pipeline, inflight, buckets, granted, replay>>

----------------------------------------------------------------------------
(* Bounds of the model *)

MaxClock == 5

\* the execute_secure_action calls that can be in flight at once
MaxTasks == 2

\* time.time() is held in milliseconds: (time.time() - start) * 1000
MsPerSecond == 1000

----------------------------------------------------------------------------
(* Python values *)

None == [none |-> TRUE]
Str(s) == [str |-> s]
Num(n) == [num |-> n]
Bool(b) == [bool |-> b]
List(s) == [list |-> s]
Dict(pairs) == [dict |-> pairs]

Tok(s) == Str(<<s>>)

\* a dictionary key or another one-token string literal
K(s) == <<s>>

\* the key 'screenshot_path', which contains 'path'
ScreenshotPathKey == <<"screenshot_", "path">>

IsNone(v) == "none" \in DOMAIN v
IsStr(v) == "str" \in DOMAIN v
IsDict(v) == "dict" \in DOMAIN v

EmptyMap == [x \in {} |-> x]

\* dict.get(key, default) on a Python dict value
DictGet(d, key, default) ==
    LET idx == {i \in DOMAIN d.dict : d.dict[i][1] = key}
    IN IF idx = {} THEN default ELSE d.dict[CHOOSE i \in idx : TRUE][2]

\* m[k] = v on a map held as a TLA+ function
MapPut(m, k, v) == [x \in DOMAIN m \cup {k} |-> IF x = k THEN v ELSE m[x]]

\* del m[k]
MapDel(m, k) == [x \in DOMAIN m \ {k} |-> m[x]]

----------------------------------------------------------------------------
(* json.dump / json.load *)

RECURSIVE JsonDump(_)
JsonDump(v) ==
    CASE "none" \in DOMAIN v -> [jnull |-> TRUE]
      [] "str"  \in DOMAIN v -> [jstr |-> v.str]
      [] "num"  \in DOMAIN v -> [jnum |-> v.num]
      [] "bool" \in DOMAIN v -> [jbool |-> v.bool]
      [] "list" \in DOMAIN v -> [jarr |-> [i \in DOMAIN v.list |-> JsonDump(v.list[i])]]
      [] "dict" \in DOMAIN v ->
            [jobj |-> [i \in DOMAIN v.dict |->
                          <<v.dict[i][1], JsonDump(v.dict[i][2])>>]]

RECURSIVE JsonLoad(_)
JsonLoad(j) ==
    CASE "jnull" \in DOMAIN j -> None
      [] "jstr"  \in DOMAIN j -> Str(j.jstr)
      [] "jnum"  \in DOMAIN j -> Num(j.jnum)
      [] "jbool" \in DOMAIN j -> Bool(j.jbool)
      [] "jarr"  \in DOMAIN j -> List([i \in DOMAIN j.jarr |-> JsonLoad(j.jarr[i])])
      [] "jobj"  \in DOMAIN j ->
            Dict([i \in DOMAIN j.jobj |-> <<j.jobj[i][1], JsonLoad(j.jobj[i][2])>>])

----------------------------------------------------------------------------
(* WorkflowCapture: the recorder.  Its methods are functions from the      *)
(* recorder's state R (a record of its four attributes) and the current    *)
(* time to the state after the call, what it returned (val) and whether it *)
(* raised.                                                                  *)

Range(s) == {s[i] : i \in DOMAIN s}

\* str.replace(old, new) on a string held as a sequence of one-character tokens
Replace(s, old, new) == [i \in DOMAIN s |-> IF s[i] = old THEN new ELSE s[i]]

\* int(time.time())
IntTime(now) == now \div MsPerSecond

\* f"session_{int(time.time())}_{name.replace(' ', '_')}"
SessionId(now, name) ==
    Str(<<"session_", ToString(IntTime(now)), "_">> \o Replace(name.str, " ", "_"))

\* f"{action_type}:{tool_name}"
ActionKey(action_type, tool_name) == action_type.str \o <<":">> \o tool_name.str

\* config.get('capture_screenshots', True)
capture_screenshots == TRUE

ScreenshotTypes == {Tok("vision"), Tok("browser"), Tok("hands")}

RecState ==
    [is_recording |-> is_recording, current_session |-> current_session,
     action_start_times |-> action_start_times, storage |-> storage]

Returned(R, val) == [R |-> R, raised |-> FALSE, val |-> val]
Raised(R) == [R |-> R, raised |-> TRUE, val |-> None]

\* a faulty to_dict that leaves the error out of the stored action
to_dict_without_error(a) ==
    Dict(<< <<K("timestamp"), a.timestamp>>, <<K("action_type"), a.action_type>>,
            <<K("tool_name"), a.tool_name>>, <<K("parameters"), a.parameters>>,
            <<K("result"), a.result>>, <<ScreenshotPathKey, a.screenshot_path>>,
            <<K("duration_ms"), a.duration_ms>>, <<K("success"), a.success>> >>)

\* CapturedAction.to_dict: asdict(self), fields in declaration order
to_dict(a) ==
    Dict(<< <<K("timestamp"), a.timestamp>>, <<K("action_type"), a.action_type>>,
            <<K("tool_name"), a.tool_name>>, <<K("parameters"), a.parameters>>,
            <<K("result"), a.result>>, <<ScreenshotPathKey, a.screenshot_path>>,
            <<K("duration_ms"), a.duration_ms>>, <<K("success"), a.success>>,
            <<K("error"), a.error>> >>)

\* CapturedAction(**action_dict)
CapturedAction(d) ==
    [timestamp |-> DictGet(d, K("timestamp"), None),
     action_type |-> DictGet(d, K("action_type"), None),
     tool_name |-> DictGet(d, K("tool_name"), None),
     parameters |-> DictGet(d, K("parameters"), None),
     result |-> DictGet(d, K("result"), None),
     screenshot_path |-> DictGet(d, ScreenshotPathKey, None),
     duration_ms |-> DictGet(d, K("duration_ms"), None),
     success |-> DictGet(d, K("success"), Bool(TRUE)),
     error |-> DictGet(d, K("error"), None)]

\* the session_data dictionary that _save_session serializes
SessionData(session) ==
    Dict(<< <<K("session_id"), session.session_id>>,
            <<K("name"), session.name>>,
            <<K("started_at"), session.started_at>>,
            <<K("ended_at"), session.ended_at>>,
            <<K("duration_seconds"),
              IF IsNone(session.ended_at) THEN None
              ELSE Num(session.ended_at.num - session.started_at.num)>>,
            <<K("action_count"), Num(Len(session.actions))>>,
            <<K("metadata"), session.metadata>>,
            <<K("actions"),
              List([i \in DOMAIN session.actions |-> to_dict(session.actions[i])])>> >>)

\* open(storage_dir / f"{session_id}.json", 'w') finds its directory: the only
\* directory that exists is storage_dir itself
CanOpenForWrite(session_id) == "/" \notin Range(session_id.str)

save_session(R, session) ==
    IF CanOpenForWrite(session.session_id)
    THEN Returned([R EXCEPT !.storage =
                      MapPut(@, session.session_id, JsonDump(SessionData(session)))],
                  session.session_id)
    ELSE Raised(R)

stop_recording(R, now) ==
    IF ~R.is_recording \/ IsNone(R.current_session)
    THEN Returned(R, None)
    ELSE LET sealed == [R.current_session EXCEPT !.ended_at = Num(now)]
             R1 == [R EXCEPT !.current_session = sealed, !.is_recording = FALSE]
             saved == save_session(R1, sealed)
         IN IF saved.raised
            THEN Raised(R1)
            ELSE Returned([saved.R EXCEPT !.current_session = None],
                          sealed.session_id)

\* a faulty start_recording that drops the session in progress without stopping it
start_recording_without_stop(R, now, name, metadata) ==
    LET session_id == SessionId(now, name)
        session == [session_id |-> session_id, name |-> name,
                    started_at |-> Num(now), ended_at |-> None,
                    actions |-> <<>>, metadata |-> metadata]
    IN Returned([R EXCEPT !.current_session = session, !.is_recording = TRUE],
                session_id)

start_recording(R, now, name, metadata) ==
    LET stopped == IF R.is_recording THEN stop_recording(R, now)
                   ELSE Returned(R, None)
        session_id == SessionId(now, name)
        session == [session_id |-> session_id, name |-> name,
                    started_at |-> Num(now), ended_at |-> None,
                    actions |-> <<>>, metadata |-> metadata]
    IN IF stopped.raised
       THEN Raised(stopped.R)
       ELSE Returned([stopped.R EXCEPT !.current_session = session,
                                       !.is_recording = TRUE],
                     session_id)

\* f"{session_id}_{action_type}_{tool_name}_{timestamp}.png" under screenshot_dir
capture_screenshot(R, now, action_type, tool_name) ==
    Str(<<"screenshots/">> \o R.current_session.session_id.str \o <<"_">>
        \o action_type.str \o <<"_">> \o tool_name.str
        \o <<"_", ToString(now), ".png">>)

\* result.copy() if result else None
CopyIfAny(result) ==
    IF IsNone(result) \/ (IsDict(result) /\ result.dict = <<>>) THEN None ELSE result

\* the action that capture_action builds
NewAction(R, now, action_type, tool_name, parameters, result, success, error) ==
    LET action_key == ActionKey(action_type, tool_name)
    IN [timestamp |-> Num(now), action_type |-> action_type,
        tool_name |-> tool_name, parameters |-> parameters,
        result |-> CopyIfAny(result),
        screenshot_path |->
            IF capture_screenshots /\ action_type \in ScreenshotTypes
            THEN capture_screenshot(R, now, action_type, tool_name)
            ELSE None,
        duration_ms |->
            IF action_key \in DOMAIN R.action_start_times
            THEN Num(now - R.action_start_times[action_key])
            ELSE None,
        success |-> Bool(success), error |-> error]

\* a faulty capture_action that keeps only the latest action
capture_action_keeping_last(R, now, action_type, tool_name, parameters, result, success, error) ==
    IF ~R.is_recording \/ IsNone(R.current_session)
    THEN Returned(R, None)
    ELSE Returned([R EXCEPT !.action_start_times =
                               MapDel(@, ActionKey(action_type, tool_name)),
                            !.current_session.actions =
                               <<NewAction(R, now, action_type, tool_name,
                                           parameters, result, success, error)>>],
                  Str(<<"action_", "1">>))

\* a faulty capture_action that records successes only
capture_action_successes_only(R, now, action_type, tool_name, parameters, result, success, error) ==
    IF ~R.is_recording \/ IsNone(R.current_session) \/ ~success
    THEN Returned(R, None)
    ELSE Returned([R EXCEPT !.action_start_times =
                               MapDel(@, ActionKey(action_type, tool_name)),
                            !.current_session.actions =
                               Append(@, NewAction(R, now, action_type, tool_name,
                                                   parameters, result, success, error))],
                  Str(<<"action_", ToString(Len(R.current_session.actions) + 1)>>))

\* a faulty capture_action that uses up the start time before it looks for a session
capture_action_consuming_start(R, now, action_type, tool_name, parameters, result, success, error) ==
    LET action_key == ActionKey(action_type, tool_name)
        action == NewAction(R, now, action_type, tool_name, parameters,
                            result, success, error)
        times == IF action_key \in DOMAIN R.action_start_times
                 THEN MapDel(R.action_start_times, action_key)
                 ELSE R.action_start_times
    IN IF ~R.is_recording \/ IsNone(R.current_session)
       THEN Returned([R EXCEPT !.action_start_times = times], None)
       ELSE LET actions == Append(R.current_session.actions, action)
            IN Returned([R EXCEPT !.action_start_times = times,
                                  !.current_session.actions = actions],
                        Str(<<"action_", ToString(Len(actions))>>))

\* a faulty capture_action that leaves the start time in place after using it
capture_action_reusing_start(R, now, action_type, tool_name, parameters, result, success, error) ==
    IF ~R.is_recording \/ IsNone(R.current_session)
    THEN Returned(R, None)
    ELSE LET actions == Append(R.current_session.actions,
                               NewAction(R, now, action_type, tool_name,
                                         parameters, result, success, error))
         IN Returned([R EXCEPT !.current_session.actions = actions],
                     Str(<<"action_", ToString(Len(actions))>>))

capture_action(R, now, action_type, tool_name, parameters, result, success, error) ==
    IF ~R.is_recording \/ IsNone(R.current_session)
    THEN Returned(R, None)
    ELSE LET action_key == ActionKey(action_type, tool_name)
             action == NewAction(R, now, action_type, tool_name, parameters,
                                 result, success, error)
             times == IF action_key \in DOMAIN R.action_start_times
                      THEN MapDel(R.action_start_times, action_key)
                      ELSE R.action_start_times
             actions == Append(R.current_session.actions, action)
         IN Returned([R EXCEPT !.action_start_times = times,
                               !.current_session.actions = actions],
                     Str(<<"action_", ToString(Len(actions))>>))

mark_action_start(R, now, action_type, tool_name) ==
    Returned([R EXCEPT !.action_start_times =
                 MapPut(@, ActionKey(action_type, tool_name), now)],
             None)

\* load_session: None when the file is missing, else the reconstructed session
load_session(R, session_id) ==
    IF session_id \notin DOMAIN R.storage
    THEN None
    ELSE LET session_data == JsonLoad(R.storage[session_id])
             dicts == DictGet(session_data, K("actions"), List(<<>>)).list
         IN [session_id |-> DictGet(session_data, K("session_id"), None),
             name |-> DictGet(session_data, K("name"), None),
             started_at |-> DictGet(session_data, K("started_at"), None),
             ended_at |-> DictGet(session_data, K("ended_at"), None),
             actions |-> [i \in DOMAIN dicts |-> CapturedAction(dicts[i])],
             metadata |-> DictGet(session_data, K("metadata"), Dict(<<>>))]

\* get_session_stats: counts over the loaded session
get_session_stats(R, session_id) ==
    LET session == load_session(R, session_id)
    IN IF IsNone(session) THEN None
       ELSE LET ok == {i \in DOMAIN session.actions : session.actions[i].success.bool}
            IN [session_id |-> session.session_id,
                total_actions |-> Len(session.actions),
                success_count |-> Cardinality(ok),
                error_count |-> Len(session.actions) - Cardinality(ok)]

----------------------------------------------------------------------------
(* SecurityValidator.  A string is a sequence of lexical tokens; a pattern  *)
(* of the validator is the set of tokens that match it.                    *)

\* str.lower() / re.IGNORECASE, token by token
LowerTok(t) ==
    CASE t = "SELECT" -> "select"
      [] t = "DROP" -> "drop"
      [] t = "RM" -> "rm"
      [] t = "URL" -> "url"
      [] OTHER -> t

Lower(s) == [i \in DOMAIN s |-> LowerTok(s[i])]

HasToken(s, toks) == \E i \in DOMAIN s : s[i] \in toks

\* r'\b(rm|del|format|mkfs|dd)\b.*-[rf]'
DestructiveCommand(s) ==
    \E i \in DOMAIN s, j \in DOMAIN s :
        /\ i < j
        /\ LowerTok(s[i]) \in {"rm", "del", "format", "mkfs", "dd"}
        /\ LowerTok(s[j]) \in {"-r", "-f", "-rf", "-fr"}

\* r'\bcat\b.*(/etc/|/var/log/)'
CatSensitive(s) ==
    \E i \in DOMAIN s, j \in DOMAIN s :
        i < j /\ LowerTok(s[i]) = "cat" /\ s[j] \in {"/etc/", "/var/log/"}

\* the other DANGEROUS_COMMANDS patterns
DangerousCommandTokens ==
    {"sudo", "su", "doas", ":", ",", ";", "|", "&", "$", "$(", "eval(",
     "exec(", "__import__", "compile(", ">/dev/", "/proc/", "/sys/",
     "/etc/passwd", "/etc/shadow", "/etc/sudoers"}

\* dangerous_chars of _validate_command; "LF" is the newline character
ShellMetacharacters == {"|", "&", ";", "$", "<", ">", "LF"}

validate_command(s) ==
    ~ \/ DestructiveCommand(s)
      \/ CatSensitive(s)
      \/ HasToken(Lower(s), DangerousCommandTokens)
      \/ HasToken(s, ShellMetacharacters)

\* SQL_INJECTION_PATTERNS
SqlInjectionTokens ==
    {"select", "insert", "update", "delete", "drop", "create", "alter", "exec",
     "execute", "--", "#", "union select", ";", "||", "&&"}

validate_sql(s) == ~HasToken(Lower(s), SqlInjectionTokens)

\* XSS_PATTERNS
XssTokens ==
    {"<script>", "javascript:", "onclick=", "onerror=", "<iframe", "<object",
     "<embed", "eval("}

validate_html(s) == ~HasToken(Lower(s), XssTokens)

\* PATH_TRAVERSAL_PATTERNS
PathTraversalTokens == {"../", "..", "~", "/etc/", "/var/", "/root/"}

\* DANGEROUS_EXTENSIONS
DangerousExtensions ==
    {".exe", ".dll", ".so", ".dylib", ".sh", ".bat", ".cmd", ".ps1", ".vbs",
     ".js", ".jar"}

\* config.get('strict_mode', True)
strict_mode == TRUE

\* Path(path).resolve() lies under Path.cwd(): a relative path does, an absolute
\* one (first token "/") is taken to lie elsewhere
InsideProjectRoot(s) == s[1] # "/"

validate_path(s) ==
    /\ ~HasToken(s, PathTraversalTokens)
    /\ LowerTok(s[Len(s)]) \notin DangerousExtensions
    /\ strict_mode => InsideProjectRoot(s)

\* ALLOWED_URL_SCHEMES; allowed_domains and blocked_domains are empty by default
AllowedUrlSchemes == {"http", "https", "file"}

\* urlparse(url).scheme: the token before the first ":" when the url starts with it
UrlScheme(s) == IF Len(s) >= 2 /\ s[2] = ":" THEN LowerTok(s[1]) ELSE ""

validate_url(s) == UrlScheme(s) \in AllowedUrlSchemes

validate_general(s) == validate_command(s) /\ validate_sql(s) /\ validate_html(s)

\* validate_input(input_text, input_type): TRUE when accepted
validate_input(value, input_type) ==
    IF value.str = <<>> THEN TRUE
    ELSE CASE input_type = "command" -> validate_command(value.str)
           [] input_type = "path" -> validate_path(value.str)
           [] input_type = "url" -> validate_url(value.str)
           [] input_type = "sql" -> validate_sql(value.str)
           [] input_type = "html" -> validate_html(value.str)
           [] OTHER -> validate_general(value.str)

----------------------------------------------------------------------------
(* AIOrchestrator *)

\* _detect_input_type: a parameter name is a sequence of tokens, and
\* 'url' in param_lower is the presence of the token
detect_input_type(param_name) ==
    LET param_lower == Lower(param_name)
    IN IF HasToken(param_lower, {"url", "link"}) THEN "url"
       ELSE IF HasToken(param_lower, {"path", "file"}) THEN "path"
       ELSE IF HasToken(param_lower, {"command", "cmd"}) THEN "command"
       ELSE IF HasToken(param_lower, {"query", "sql"}) THEN "sql"
       ELSE IF HasToken(param_lower, {"html", "content"}) THEN "html"
       ELSE "general"

\* a faulty _validate_action that looks at the first parameter only
FirstRejected_first_only(parameters) ==
    IF /\ parameters.dict # <<>>
       /\ IsStr(parameters.dict[1][2])
       /\ ~validate_input(parameters.dict[1][2],
                          detect_input_type(parameters.dict[1][1]))
    THEN 1 ELSE 0

\* _validate_action: the index of the first string parameter the validator
\* rejects, 0 when there is none
FirstRejected(parameters) ==
    LET bad == {i \in DOMAIN parameters.dict :
                   /\ IsStr(parameters.dict[i][2])
                   /\ ~validate_input(parameters.dict[i][2],
                                      detect_input_type(parameters.dict[i][1]))}
    IN IF bad = {} THEN 0 ELSE CHOOSE i \in bad : \A j \in bad : i <= j

validate_action(parameters) == FirstRejected(parameters) = 0

Failure(error) == Dict(<< <<K("success"), Bool(FALSE)>>, <<K("error"), Str(error)>> >>)

Blocked(parameters) ==
    Dict(<< <<K("success"), Bool(FALSE)>>,
            <<K("error"),
              Str(<<"Security validation failed: Parameter '">>
                  \o parameters.dict[FirstRejected(parameters)][1]
                  \o <<"' validation failed">>)>>,
            <<K("blocked"), Bool(TRUE)>> >>)

\* the result when _validate_action caught an exception of the validator
ValidationError ==
    Dict(<< <<K("success"), Bool(FALSE)>>,
            <<K("error"), Str(<<"Security validation failed: ", "validator raised">>)>>,
            <<K("blocked"), Bool(TRUE)>> >>)

\* a faulty _validate_action that lets the call through when the validator raises
validation_fail_open(env, parameters) ==
    IF /\ env.validator = "raises"
       /\ \E i \in DOMAIN parameters.dict : IsStr(parameters.dict[i][2])
    THEN "valid"
    ELSE IF validate_action(parameters) THEN "valid" ELSE "invalid"

\* _validate_action with its exception handler: validate_input is called for the
\* string parameters, in order; a validator that raises does so at the first one
validation(env, parameters) ==
    IF /\ env.validator = "raises"
       /\ \E i \in DOMAIN parameters.dict : IsStr(parameters.dict[i][2])
    THEN "error"
    ELSE IF validate_action(parameters) THEN "valid" ELSE "invalid"

\* what a collaborator call can do: return a value or raise
Ok(value) == [raised |-> FALSE, value |-> value]
Raises == [raised |-> TRUE, value |-> None]

\* a faulty _execute_action that hands every unrecognized type to the last handler
execute_action_default_hands(action_type, tool_name, parameters, out, hasVision, hasMemory) ==
    CASE action_type = Tok("vision") ->
            [handler |-> "vision",
             called |-> IF hasVision /\ tool_name = Tok("analyze_screen")
                        THEN "analyze_screen" ELSE "none",
             result |->
                IF ~hasVision THEN Failure(<<"Vision AI not available">>)
                ELSE IF tool_name = Tok("analyze_screen")
                THEN IF out.raised THEN Failure(<<"collaborator raised">>)
                     ELSE Dict(<< <<K("success"), Bool(TRUE)>>,
                                  <<K("result"), out.value>> >>)
                ELSE Failure(<<"Unknown vision tool: ">> \o tool_name.str)]
      [] action_type = Tok("memory") ->
            [handler |-> "memory",
             called |-> IF hasMemory /\ tool_name = Tok("search")
                        THEN "search_memories"
                        ELSE IF hasMemory /\ tool_name = Tok("store_screen")
                        THEN "store_screen_memory" ELSE "none",
             result |->
                IF ~hasMemory THEN Failure(<<"Memory system not available">>)
                ELSE IF tool_name = Tok("search")
                THEN IF out.raised THEN Failure(<<"collaborator raised">>)
                     ELSE Dict(<< <<K("success"), Bool(TRUE)>>,
                                  <<K("results"), out.value>> >>)
                ELSE IF tool_name = Tok("store_screen")
                THEN IF out.raised THEN Failure(<<"collaborator raised">>)
                     ELSE Dict(<< <<K("success"), Bool(TRUE)>>,
                                  <<K("memory_id"), out.value>> >>)
                ELSE Failure(<<"Unknown memory tool: ">> \o tool_name.str)]
      [] action_type = Tok("browser") ->
            [handler |-> "browser", called |-> "none",
             result |-> Failure(<<"Browser control not yet implemented">>)]
      [] OTHER ->
            [handler |-> "hands", called |-> "none",
             result |-> Failure(<<"Desktop control not yet implemented">>)]

\* _execute_action and the four domain handlers: the handler invoked ("none" for
\* an unknown type), the collaborator method it called ("none" when it called
\* none) and the result; out is what the collaborator does if called
execute_action(action_type, tool_name, parameters, out, hasVision, hasMemory) ==
    CASE action_type = Tok("vision") ->
            [handler |-> "vision",
             called |-> IF hasVision /\ tool_name = Tok("analyze_screen")
                        THEN "analyze_screen" ELSE "none",
             result |->
                IF ~hasVision THEN Failure(<<"Vision AI not available">>)
                ELSE IF tool_name = Tok("analyze_screen")
                THEN IF out.raised THEN Failure(<<"collaborator raised">>)
                     ELSE Dict(<< <<K("success"), Bool(TRUE)>>,
                                  <<K("result"), out.value>> >>)
                ELSE Failure(<<"Unknown vision tool: ">> \o tool_name.str)]
      [] action_type = Tok("memory") ->
            [handler |-> "memory",
             called |-> IF hasMemory /\ tool_name = Tok("search")
                        THEN "search_memories"
                        ELSE IF hasMemory /\ tool_name = Tok("store_screen")
                        THEN "store_screen_memory" ELSE "none",
             result |->
                IF ~hasMemory THEN Failure(<<"Memory system not available">>)
                ELSE IF tool_name = Tok("search")
                THEN IF out.raised THEN Failure(<<"collaborator raised">>)
                     ELSE Dict(<< <<K("success"), Bool(TRUE)>>,
                                  <<K("results"), out.value>> >>)
                ELSE IF tool_name = Tok("store_screen")
                THEN IF out.raised THEN Failure(<<"collaborator raised">>)
                     ELSE Dict(<< <<K("success"), Bool(TRUE)>>,
                                  <<K("memory_id"), out.value>> >>)
                ELSE Failure(<<"Unknown memory tool: ">> \o tool_name.str)]
      [] action_type = Tok("browser") ->
            [handler |-> "browser", called |-> "none",
             result |-> Failure(<<"Browser control not yet implemented">>)]
      [] action_type = Tok("hands") ->
            [handler |-> "hands", called |-> "none",
             result |-> Failure(<<"Desktop control not yet implemented">>)]
      [] OTHER ->
            [handler |-> "none", called |-> "none",
             result |-> Failure(<<"Unknown action type: ">> \o action_type.str)]

\* the store_action_memory call that _store_in_memory makes
MemoryWrite(action_type, tool_name, parameters, result) ==
    [content |-> action_type.str \o <<".">> \o tool_name.str \o <<": ">>,
     parameters |-> parameters,
     action_type |-> tool_name,
     success |-> DictGet(result, K("success"), Bool(TRUE)),
     mcp_server |-> action_type]

\* a faulty _store_in_memory that lets the collaborator's exception through
store_in_memory_raising(log, hasMemory, write, stored) ==
    IF ~hasMemory
    THEN [log |-> log, raised |-> FALSE, steps |-> <<>>]
    ELSE [log |-> Append(log, write), raised |-> stored.raised,
          steps |-> <<"store_action_memory">>]

\* _store_in_memory: the call reaches the collaborator (log is the calls it has
\* received); stored is what store_action_memory does; an exception is logged
store_in_memory(log, hasMemory, write, stored) ==
    IF ~hasMemory
    THEN [log |-> log, raised |-> FALSE, steps |-> <<>>]
    ELSE [log |-> Append(log, write), raised |-> FALSE,
          steps |-> <<"store_action_memory">>
                    \o (IF stored.raised THEN <<"logger.error">> ELSE <<>>)]

\* execute_secure_action.  O is the orchestrator's state (its recording flag, its
\* recorder R, the calls its memory collaborator has received), env the components
\* that loaded, out what the dispatched collaborator does, stored what
\* store_action_memory does, took the time the dispatch takes.  Yields the state
\* after the call, the result, what _execute_action returned (dispatched, None
\* when it was not called) and the steps taken.
execute_secure_action(O, env, now, took, action_type, tool_name, parameters, out, stored) ==
    IF env.security /\ validation(env, parameters) # "valid"
    THEN [O |-> O,
          result |-> IF validation(env, parameters) = "error"
                     THEN ValidationError ELSE Blocked(parameters),
          dispatched |-> None,
          trace |-> <<"validate">>]
    ELSE
    LET recording == O.is_recording
        marked == IF recording
                  THEN mark_action_start(O.R, now, action_type, tool_name).R
                  ELSE O.R
        done == execute_action(action_type, tool_name, parameters, out,
                               env.vision, env.memory)
        result == done.result
        success == DictGet(result, K("success"), Bool(TRUE)).bool
        captured == IF recording
                    THEN capture_action(marked, now + took, action_type, tool_name,
                                        parameters, result, success,
                                        DictGet(result, K("error"), None)).R
                    ELSE marked
        stores == env.memory /\ success
        write == IF stores
                 THEN store_in_memory(O.memory_log, env.memory,
                                      MemoryWrite(action_type, tool_name,
                                                  parameters, result), stored)
                 ELSE [log |-> O.memory_log, raised |-> FALSE, steps |-> <<>>]
    IN [O |-> [O EXCEPT !.R = captured, !.memory_log = write.log],
        \* an exception that reaches the outer handler becomes the result
        result |-> IF write.raised THEN Failure(<<"store_action_memory raised">>)
                   ELSE result,
        dispatched |-> result,
        trace |-> (IF env.security THEN <<"validate">> ELSE <<>>)
                  \o (IF recording THEN <<"mark_action_start">> ELSE <<>>)
                  \o <<"execute_action">>
                  \o (IF done.handler = "none" THEN <<>> ELSE <<done.handler>>)
                  \o (IF done.called = "none" THEN <<>> ELSE <<done.called>>)
                  \o (IF recording THEN <<"capture_action">> ELSE <<>>)
                  \o write.steps]

\* AIOrchestrator.start_recording (the recorder is loaded)
orch_start_recording(O, now, session_name, metadata) ==
    LET r == start_recording(O.R, now, session_name, metadata)
    IN IF r.raised
       THEN [O |-> [O EXCEPT !.R = r.R], raised |-> TRUE, val |-> None]
       ELSE [O |-> [O EXCEPT !.R = r.R, !.is_recording = TRUE,
                             !.current_session_id = r.val],
             raised |-> FALSE, val |-> r.val]

\* AIOrchestrator.stop_recording
orch_stop_recording(O, now) ==
    IF ~O.is_recording
    THEN [O |-> O, raised |-> FALSE, val |-> None]
    ELSE LET r == stop_recording(O.R, now)
         IN IF r.raised
            THEN [O |-> [O EXCEPT !.R = r.R], raised |-> TRUE, val |-> None]
            ELSE [O |-> [O EXCEPT !.R = r.R, !.is_recording = FALSE,
                                  !.current_session_id = None],
                  raised |-> FALSE, val |-> r.val]

\* get_status()['recording']
get_status(O) ==
    [is_recording |-> O.is_recording, session_id |-> O.current_session_id]

OrchState ==
    [is_recording |-> orch_is_recording, current_session_id |-> current_session_id,
     memory_log |-> memory_log, R |-> RecState]

\* the components that loaded; the validator, when loaded, checks what it is given
Env ==
    [security |-> securityOK, memory |-> memoryOK, vision |-> visionOK,
     validator |-> "checks"]

----------------------------------------------------------------------------
(* AutonomousAgent.  A confidence is held in tenths: 0.7 is 7.  The goal   *)
(* cycle of analyze_and_act is a record a: its position pc, the agent's    *)
(* settings and the local variables of the cycle.                          *)

\* config.get('confidence_threshold', 0.7)
DefaultThreshold == 7

\* analysis.get('confidence', 0.5)
DefaultConfidence == 5

\* the truth value Python gives a value
Truthy(v) ==
    CASE "none" \in DOMAIN v -> FALSE
      [] "bool" \in DOMAIN v -> v.bool
      [] "num"  \in DOMAIN v -> v.num # 0
      [] "str"  \in DOMAIN v -> v.str # <<>>
      [] "list" \in DOMAIN v -> v.list # <<>>
      [] "dict" \in DOMAIN v -> v.dict # <<>>

\* str(x) inside an f-string
Text(v) == IF IsStr(v) THEN v.str ELSE <<"None">>

\* config.get('max_retries', 3)
DefaultRetries == 3

\* AutonomousAgent.__init__ and the locals of a cycle that has not begun
NewAgent(confidence_threshold, learning_enabled) ==
    [pc |-> "idle",
     confidence_threshold |-> confidence_threshold,
     learning_enabled |-> learning_enabled,
     max_retries |-> DefaultRetries,
     current_task |-> None, task_history |-> <<>>,
     goal |-> None, screenshot_path |-> None,
     analysis |-> None, similar_experiences |-> None, action_plan |-> None,
     results |-> <<>>, success |-> TRUE, i |-> 0, j |-> 0,
     outcome |-> None]

\* an action of a plan
PlanAction(action_type, tool_name, parameters) ==
    Dict(<< <<K("action_type"), action_type>>, <<K("tool_name"), tool_name>>,
            <<K("parameters"), parameters>> >>)

\* the call the agent makes for an action of a plan
ActionCall(action) ==
    [action_type |-> DictGet(action, K("action_type"), None),
     tool_name |-> DictGet(action, K("tool_name"), None),
     parameters |-> DictGet(action, K("parameters"), None)]

\* the prompt of _analyze_situation, its line breaks included
AnalyzePrompt(goal) ==
    Str(<<"LF", "Analyze this screen in the context of the following goal", ":", " ">>
        \o goal.str
        \o <<"LF", "Please identify", ":", "LF",
             "5. Confidence level (0.0-1.0) for recommended actions", "LF">>)

\* the request of _analyze_situation
AnalyzeCall(screenshot_path, goal) ==
    [action_type |-> Tok("vision"), tool_name |-> Tok("analyze_screen"),
     parameters |-> Dict(<< <<ScreenshotPathKey, screenshot_path>>,
                            <<K("prompt"), AnalyzePrompt(goal)>> >>)]

\* a faulty test of the vision result that takes every result for a success
AnalysisSucceeded_always(result) == TRUE

\* if result.get('success') in _analyze_situation
AnalysisSucceeded(result) == Truthy(DictGet(result, K("success"), None))

\* the except clause of analyze_and_act: {'success': False, 'error': str(e)}
CycleFailure(a, error) == [a EXCEPT !.pc = "done", !.outcome = Failure(error)]

\* _analyze_situation once the orchestrator has returned: the analysis is kept, or
\* RuntimeError is raised and analyze_and_act returns the failure
analyze_step(a, result) ==
    IF AnalysisSucceeded(result)
    THEN [a EXCEPT !.pc = "recall",
                   !.analysis = DictGet(result, K("result"), Dict(<<>>))]
    ELSE CycleFailure(a, <<"Vision analysis failed: ">>
                         \o Text(DictGet(result, K("error"), None)))

\* the request of _find_similar_experiences
RecallCall(goal) ==
    [action_type |-> Tok("memory"), tool_name |-> Tok("search"),
     parameters |-> Dict(<< <<K("query"), goal>>, <<K("limit"), Num(5)>> >>)]

\* _find_similar_experiences once the orchestrator has returned
find_similar_experiences(result) ==
    IF Truthy(DictGet(result, K("success"), None))
    THEN LET memories == DictGet(result, K("results"), Dict(<<>>))
         IN IF IsDict(memories) THEN DictGet(memories, K("results"), List(<<>>))
            ELSE List(<<>>)
    ELSE List(<<>>)

\* a faulty recall that ends the cycle when the search is unsuccessful
recall_step_fatal(a, result) ==
    IF Truthy(DictGet(result, K("success"), None))
    THEN [a EXCEPT !.pc = "decide",
                   !.similar_experiences = find_similar_experiences(result)]
    ELSE CycleFailure(a, <<"Memory search failed">>)

\* analyze_and_act, step 2
recall_step(a, result) ==
    [a EXCEPT !.pc = "decide", !.similar_experiences = find_similar_experiences(result)]

\* a faulty comparison that leaves the threshold itself out
MeetsThreshold_strict(confidence, confidence_threshold) ==
    confidence.num > confidence_threshold

\* confidence >= self.confidence_threshold
MeetsThreshold(confidence, confidence_threshold) ==
    confidence.num >= confidence_threshold

\* [exp for exp in similar_experiences if exp.get('success', False)]
SuccessfulExperiences(similar_experiences) ==
    SelectSeq(similar_experiences.list,
              LAMBDA exp : Truthy(DictGet(exp, K("success"), Bool(FALSE))))

extract_actions_from_memory(memory) ==
    List(<< PlanAction(Tok("memory"), Tok("replay_workflow"),
                       Dict(<< <<K("memory_id"), DictGet(memory, K("id"), None)>> >>)) >>)

generate_actions_from_analysis(analysis) ==
    LET recommended_actions == DictGet(analysis, K("recommended_actions"), List(<<>>)).list
    IN List([n \in DOMAIN recommended_actions |->
                PlanAction(DictGet(recommended_actions[n], K("type"), Tok("browser")),
                           DictGet(recommended_actions[n], K("tool"), Tok("click")),
                           DictGet(recommended_actions[n], K("parameters"), Dict(<<>>)))])

generate_cautious_actions ==
    List(<< PlanAction(Tok("vision"), Tok("analyze_screen"),
                       Dict(<< <<K("prompt"),
                                 Tok("Provide detailed analysis of all interactive elements")>> >>)) >>)

generate_fallback_actions(goal) ==
    List(<< PlanAction(Tok("memory"), Tok("search"),
                       Dict(<< <<K("query"),
                                 Str(<<"alternative approaches for ">> \o goal.str)>>,
                               <<K("limit"), Num(3)>> >>)) >>)

\* _decide_action: the action plan
decide_action(goal, analysis, similar_experiences, confidence_threshold) ==
    LET confidence == DictGet(analysis, K("confidence"), Num(DefaultConfidence))
        successful_experiences == SuccessfulExperiences(similar_experiences)
        Plan(strategy, actions, fallback_actions) ==
            Dict(<< <<K("goal"), goal>>, <<K("confidence"), confidence>>,
                    <<K("strategy"), strategy>>, <<K("actions"), actions>>,
                    <<K("fallback_actions"), fallback_actions>> >>)
    IN IF /\ MeetsThreshold(confidence, confidence_threshold)
          /\ successful_experiences # <<>>
       THEN Plan(Tok("proven"),
                 extract_actions_from_memory(successful_experiences[1]), List(<<>>))
       ELSE IF MeetsThreshold(confidence, confidence_threshold)
       THEN Plan(Tok("exploratory"), generate_actions_from_analysis(analysis), List(<<>>))
       ELSE Plan(Tok("cautious"), generate_cautious_actions,
                 generate_fallback_actions(goal))

PlanActions(a) == DictGet(a.action_plan, K("actions"), List(<<>>)).list
FallbackActions(a) == DictGet(a.action_plan, K("fallback_actions"), List(<<>>)).list

\* what _execute_action_plan returns
PlanResult(a) ==
    Dict(<< <<K("success"), Bool(a.success)>>,
            <<K("strategy"), DictGet(a.action_plan, K("strategy"), None)>>,
            <<K("results"), List(a.results)>> >>)

\* a faulty return of analyze_and_act that reports the plan's success as its own
CycleResult_of_plan(a) ==
    Dict(<< <<K("success"), Bool(a.success)>>, <<K("goal"), a.goal>>,
            <<K("analysis"), a.analysis>>, <<K("action_plan"), a.action_plan>>,
            <<K("result"), PlanResult(a)>>,
            <<K("learned"), Bool(a.learning_enabled)>> >>)

\* what analyze_and_act returns when nothing raised
CycleResult(a) ==
    Dict(<< <<K("success"), Bool(TRUE)>>, <<K("goal"), a.goal>>,
            <<K("analysis"), a.analysis>>, <<K("action_plan"), a.action_plan>>,
            <<K("result"), PlanResult(a)>>,
            <<K("learned"), Bool(a.learning_enabled)>> >>)

\* analyze_and_act after _execute_action_plan has returned
after_execute(a) ==
    IF a.learning_enabled THEN [a EXCEPT !.pc = "learn"]
    ELSE [a EXCEPT !.pc = "done", !.outcome = CycleResult(a)]

\* analysis.get raises AttributeError when the analysis is not a dictionary
decide_step(a) ==
    IF ~IsDict(a.analysis)
    THEN CycleFailure(a, <<"object has no attribute 'get'">>)
    ELSE LET a1 == [a EXCEPT !.action_plan =
                       decide_action(a.goal, a.analysis, a.similar_experiences,
                                     a.confidence_threshold),
                       !.results = <<>>, !.success = TRUE]
         IN IF PlanActions(a1) = <<>> THEN after_execute(a1)
            ELSE [a1 EXCEPT !.pc = "execute", !.i = 1]

\* a faulty test of a primary action's result that never sees a failure
PrimaryFailed_never(result) == FALSE

\* if not result.get('success', False) in _execute_action_plan
PrimaryFailed(result) == ~Truthy(DictGet(result, K("success"), Bool(FALSE)))

\* one turn of the loop of _execute_action_plan, once the orchestrator has returned
primary_step(a, result) ==
    LET a1 == [a EXCEPT !.results = Append(@, result)]
    IN IF PrimaryFailed(result)
       THEN IF FallbackActions(a) # <<>>
            THEN [a1 EXCEPT !.success = FALSE, !.pc = "fallback", !.j = 1]
            ELSE after_execute([a1 EXCEPT !.success = FALSE])
       ELSE IF a.i = Len(PlanActions(a)) THEN after_execute(a1)
       ELSE [a1 EXCEPT !.i = @ + 1]

\* one turn of the loop of _execute_fallback, once the orchestrator has returned;
\* what it returns is appended to the results of _execute_action_plan
fallback_step(a, result) ==
    IF Truthy(DictGet(result, K("success"), None))
    THEN after_execute([a EXCEPT !.results = Append(@, result)])
    ELSE IF a.j = Len(FallbackActions(a))
    THEN after_execute([a EXCEPT !.results =
                           Append(@, Failure(<<"All fallback actions failed">>))])
    ELSE [a EXCEPT !.j = @ + 1]

\* the request of _learn_from_result
LearnCall(a) ==
    LET strategy == DictGet(a.action_plan, K("strategy"), None)
    IN [action_type |-> Tok("memory"), tool_name |-> Tok("store_workflow"),
        parameters |->
           Dict(<< <<K("content"),
                     Str(<<"Goal", ":", " ">> \o a.goal.str
                         \o <<",", " ", "Strategy", ":", " ">> \o Text(strategy))>>,
                   <<K("workflow_name"),
                     Str(<<"auto_">> \o Replace(a.goal.str, " ", "_"))>>,
                   <<K("steps"), DictGet(a.action_plan, K("actions"), None)>>,
                   <<K("success"), Bool(a.success)>>,
                   <<K("metadata"),
                     Dict(<< <<K("confidence"),
                               DictGet(a.action_plan, K("confidence"), None)>>,
                             <<K("strategy"), strategy>> >>)>> >>)]

\* a faulty LEARN that lets an unsuccessful store end the cycle in failure
learn_step_propagating(a, result) ==
    IF Truthy(DictGet(result, K("success"), None))
    THEN [a EXCEPT !.pc = "done", !.outcome = CycleResult(a)]
    ELSE CycleFailure(a, <<"Learning failed">>)

\* a faulty LEARN that also keeps the cycle's outcome in the agent's own history
learn_step_recording(a, result) ==
    [a EXCEPT !.pc = "done", !.outcome = CycleResult(a),
              !.task_history = Append(@, CycleResult(a))]

\* _learn_from_result ignores what the orchestrator returns
learn_step(a, result) == [a EXCEPT !.pc = "done", !.outcome = CycleResult(a)]

\* the agent when analyze_and_act is called on it again: what __init__ set is as
\* it was left, the locals of the cycle are new
NextCycle(a) ==
    [NewAgent(a.confidence_threshold, a.learning_enabled)
        EXCEPT !.max_retries = a.max_retries, !.current_task = a.current_task,
               !.task_history = a.task_history]

\* sum(1 for task in self.task_history if task.get('success', False))
SuccessfulActions(task_history) ==
    Cardinality({i \in DOMAIN task_history :
                    Truthy(DictGet(task_history[i], K("success"), Bool(FALSE)))})

\* get_agent_stats of agent a, whose orchestrator is O
get_agent_stats(a, O) ==
    LET successful_actions == SuccessfulActions(a.task_history)
        failed_actions == Len(a.task_history) - successful_actions
    IN Dict(<< <<K("total_decisions"), Num(Len(a.task_history))>>,
               <<K("successful_actions"), Num(successful_actions)>>,
               <<K("failed_actions"), Num(failed_actions)>>,
               <<K("current_task"), a.current_task>>,
               <<K("learning_enabled"), Bool(a.learning_enabled)>>,
               <<K("confidence_threshold"), Num(a.confidence_threshold)>>,
               <<K("orchestrator_status"),
                 Dict(<< <<K("recording"),
                           Dict(<< <<K("is_recording"),
                                     Bool(get_status(O).is_recording)>>,
                                   <<K("session_id"),
                                     get_status(O).session_id>> >>)>> >>)>> >>)

\* result.get('confidence', 0) > 0.8
GoalConfidence == 8

\* the captured screen of an iteration that was given none
CurrentScreen == Str(<<"/tmp/", "current_screen", ".png">>)

\* execute_goal_autonomously before it is called
NoRun ==
    [pc |-> "idle", goal |-> None, max_iterations |-> 0, iteration |-> 0,
     current_screenshot |-> None, goal_achieved |-> FALSE, history |-> <<>>,
     result |-> None]

\* execute_goal_autonomously: the locals before the loop
BeginRun(goal, initial_screenshot, max_iterations) ==
    [pc |-> "loop", goal |-> goal, max_iterations |-> max_iterations,
     iteration |-> 0, current_screenshot |-> initial_screenshot,
     goal_achieved |-> FALSE, history |-> <<>>, result |-> None]

\* a faulty loop condition that allows one iteration more
ShouldContinue_one_more(r) == r.iteration <= r.max_iterations /\ ~r.goal_achieved

\* while iteration < max_iterations and not goal_achieved
ShouldContinue(r) == r.iteration < r.max_iterations /\ ~r.goal_achieved

\* the head of an iteration, up to the call of analyze_and_act
begin_iteration(r) ==
    [r EXCEPT !.pc = "cycle", !.iteration = @ + 1,
              !.current_screenshot = IF Truthy(@) THEN @ ELSE CurrentScreen]

\* a faulty await that goes on as soon as the cycle has begun
CycleReturned_at_once(a) == a.pc # "idle"

\* await self.analyze_and_act(...) has returned
CycleReturned(a) == a.pc = "done"

\* _check_goal_achievement
check_goal_achievement(result) ==
    /\ Truthy(DictGet(result, K("success"), Bool(FALSE)))
    /\ DictGet(result, K("confidence"), Num(0)).num > GoalConfidence

\* the rest of an iteration, once analyze_and_act has returned result; result.get
\* raises AttributeError on a result with no get, and nothing catches it
end_iteration(r, result) ==
    IF ~IsDict(result)
    THEN [r EXCEPT !.pc = "raised", !.history = Append(@, result)]
    ELSE LET goal_achieved == check_goal_achievement(result)
         IN [r EXCEPT !.pc = "loop", !.history = Append(@, result),
                      !.goal_achieved = goal_achieved,
                      !.current_screenshot = IF goal_achieved THEN @ ELSE None]

\* what execute_goal_autonomously returns
RunResult(r) ==
    Dict(<< <<K("success"), Bool(r.goal_achieved)>>, <<K("goal"), r.goal>>,
            <<K("iterations"), Num(r.iteration)>>, <<K("history"), List(r.history)>> >>)

----------------------------------------------------------------------------
(* WorkflowGenerator (mcp-servers/recorder/workflow_generator.py).  A step *)
(* is a Python dictionary; a list of steps is a sequence of them.  Indexes *)
(* into lists are those of the code, counted from 0.                       *)

\* WorkflowGenerator.__init__: every setting defaults to True
DefaultConfig == [optimize |-> TRUE, extract_variables |-> TRUE, detect_loops |-> TRUE]

\* x == y: two dictionaries are equal whatever the order of their keys
PyEq(x, y) == IF IsDict(x) /\ IsDict(y) THEN Range(x.dict) = Range(y.dict) ELSE x = y

\* key in d
HasKey(d, key) == \E i \in DOMAIN d.dict : d.dict[i][1] = key

\* {**d1, **d2}
DictMerge(d1, d2) ==
    Dict([i \in DOMAIN d1.dict |->
             <<d1.dict[i][1], DictGet(d2, d1.dict[i][1], d1.dict[i][2])>>]
         \o SelectSeq(d2.dict, LAMBDA pair : ~HasKey(d1, pair[1])))

\* the least number of a set that has one
Least(S) == CHOOSE n \in S : \A m \in S : n <= m

\* the items of a sequence in the order of their first occurrence
RECURSIVE FirstSeen(_)
FirstSeen(s) ==
    IF s = <<>> THEN <<>>
    ELSE LET before == FirstSeen(SubSeq(s, 1, Len(s) - 1))
         IN IF s[Len(s)] \in Range(before) THEN before ELSE Append(before, s[Len(s)])

\* isinstance(param_value, (str, int, float)); a bool is an int
IsScalar(v) == IsStr(v) \/ "num" \in DOMAIN v \/ "bool" \in DOMAIN v

\* type(value).__name__ of a scalar
TypeName(v) ==
    IF IsStr(v) THEN Tok("str") ELSE IF "bool" \in DOMAIN v THEN Tok("bool") ELSE Tok("int")

\* f"{action.action_type}_{action.tool_name}_{param_name}"
VariableKey(action, param_name) ==
    action.action_type.str \o <<"_">> \o action.tool_name.str \o <<"_">> \o param_name

\* the scalar parameter values of the actions, each under its key, in the order
\* the two loops of _extract_variables come to them
RECURSIVE Observations(_)
Observations(actions) ==
    IF actions = <<>> THEN <<>>
    ELSE LET action == Head(actions)
             params == action.parameters.dict
             all == [i \in DOMAIN params |->
                        [key |-> VariableKey(action, params[i][1]),
                         value |-> params[i][2]]]
         IN SelectSeq(all, LAMBDA o : IsScalar(o.value)) \o Observations(Tail(actions))

\* value_counts: the keys in the order they were first seen, each with its values
value_counts(actions) ==
    LET obs == Observations(actions)
        keys == FirstSeen([i \in DOMAIN obs |-> obs[i].key])
    IN [n \in DOMAIN keys |->
           [key |-> keys[n],
            values |-> LET own == SelectSeq(obs, LAMBDA o : o.key = keys[n])
                       IN [i \in DOMAIN own |-> own[i].value]]]

\* values.count(v)
CountOf(values, v) == Cardinality({i \in DOMAIN values : values[i] = v})

\* the orders in which a set of values can be gone through
Ties == {"first", "last"}

\* max(set(values), key=values.count): of the most frequent values the one the set
\* yields first.  The order of a set is that of its hashes, which for strings
\* changes from one process to another: tie says which end of the values tied,
\* taken in the order they were seen, the set yields first
most_common(values, tie) ==
    LET tied == SelectSeq(FirstSeen(values),
                          LAMBDA v : \A w \in Range(values) :
                                        CountOf(values, w) <= CountOf(values, v))
    IN IF tie = "first" THEN tied[1] ELSE tied[Len(tied)]

\* f"var_{var_counter}"
VarName(var_counter) == <<"var_", ToString(var_counter)>>

\* _extract_variables
extract_variables(actions, tie) ==
    LET repeated == SelectSeq(value_counts(actions), LAMBDA g : Len(g.values) > 1)
    IN Dict([n \in DOMAIN repeated |->
                <<VarName(n),
                  Dict(<< <<K("value"), most_common(repeated[n].values, tie)>>,
                          <<K("description"),
                            Str(<<"Extracted from ">> \o repeated[n].key)>>,
                          <<K("type"),
                            TypeName(most_common(repeated[n].values, tie))>> >>)>>])

\* a faulty substitution that leaves every parameter as it was recorded
substitute_variables_nowhere(parameters, variables) == parameters

\* f"${{{var_name}}}"
VarRef(var_name) == Str(<<"${">> \o var_name \o <<"}">>)

\* _substitute_variables: a value equal to a variable's becomes a reference to the
\* first such variable
substitute_variables(parameters, variables) ==
    Dict([i \in DOMAIN parameters.dict |->
             LET param_value == parameters.dict[i][2]
                 equal == {n \in DOMAIN variables.dict :
                              PyEq(param_value,
                                   DictGet(variables.dict[n][2], K("value"), None))}
             IN <<parameters.dict[i][1],
                  IF equal = {} THEN param_value
                  ELSE VarRef(variables.dict[Least(equal)][1])>>])

essential_fields ==
    <<K("status"), K("success"), K("element_count"), K("found"), K("visible")>>

\* _simplify_result
simplify_result(result) ==
    LET kept == SelectSeq(essential_fields, LAMBDA field : HasKey(result, field))
    IN Dict([i \in DOMAIN kept |-> <<kept[i], DictGet(result, kept[i], None)>>])

\* f"{action.action_type}.{action.tool_name}"
ActionId(action) == Str(action.action_type.str \o <<".">> \o action.tool_name.str)

\* the step _convert_actions_to_steps makes of the action at place idx
ConvertedStep(idx, action, variables) ==
    Dict(<< <<K("step"), Num(idx)>>, <<K("action"), ActionId(action)>>,
            <<K("parameters"), substitute_variables(action.parameters, variables)>> >>
         \o (IF Truthy(action.result)
             THEN << <<K("expected_result"), simplify_result(action.result)>> >>
             ELSE <<>>)
         \o (IF ~Truthy(action.success)
             THEN << <<K("on_error"), Tok("continue")>> >>
             ELSE <<>>)
         \o (IF Truthy(action.duration_ms) /\ action.duration_ms.num > 1000
             THEN << <<K("timeout"), Num((action.duration_ms.num * 3) \div 2)>> >>
             ELSE <<>>))

\* _convert_actions_to_steps
convert_actions_to_steps(actions, variables) ==
    [idx \in DOMAIN actions |-> ConvertedStep(idx, actions[idx], variables)]

\* step['action']
StepAction(step) == DictGet(step, K("action"), None)

\* _is_pattern_repeating
is_pattern_repeating(steps, start_idx, pattern_length) ==
    IF start_idx + pattern_length * 2 > Len(steps) THEN FALSE
    ELSE \A k \in 1..pattern_length :
            StepAction(steps[start_idx + k])
               = StepAction(steps[start_idx + pattern_length + k])

\* min(10, ...) in _find_pattern_length
MaxPatternLength == 10

\* _find_pattern_length
find_pattern_length(steps, start_idx) ==
    LET half == (Len(steps) - start_idx) \div 2
        max_pattern_length == IF MaxPatternLength < half THEN MaxPatternLength ELSE half
        repeating == {pattern_length \in 1..max_pattern_length :
                         is_pattern_repeating(steps, start_idx, pattern_length)}
    IN IF repeating = {} THEN 1 ELSE Least(repeating)

\* the while loop of _count_pattern_repeats
RECURSIVE CountRepeats(_, _, _, _)
CountRepeats(steps, idx, pattern_length, count) ==
    IF idx + pattern_length <= Len(steps)
       /\ is_pattern_repeating(steps, idx, pattern_length)
    THEN CountRepeats(steps, idx + pattern_length, pattern_length, count + 1)
    ELSE count

\* _count_pattern_repeats
count_pattern_repeats(steps, start_idx, pattern_length) ==
    LET count == CountRepeats(steps, start_idx, pattern_length, 0)
    IN IF count > 1 THEN count ELSE 1

\* the loop step of _detect_and_optimize_loops
LoopStep(step, iterations, pattern_steps) ==
    Dict(<< <<K("step"), Num(step)>>, <<K("action"), Tok("loop")>>,
            <<K("iterations"), Num(iterations)>>, <<K("steps"), List(pattern_steps)>> >>)

\* a faulty pass that takes the copy the count left out for consumed
detect_iteration_skipping(steps, i, optimized) ==
    LET pattern_length == find_pattern_length(steps, i)
    IN IF pattern_length > 1
       THEN LET repeat_count == count_pattern_repeats(steps, i, pattern_length)
            IN [i |-> i + pattern_length * (repeat_count + 1),
                optimized |-> Append(optimized,
                                     LoopStep(Len(optimized) + 1, repeat_count,
                                              SubSeq(steps, i + 1, i + pattern_length)))]
       ELSE [i |-> i + 1, optimized |-> Append(optimized, steps[i + 1])]

\* one pass of the while loop of _detect_and_optimize_loops, entered with
\* i < len(steps): the scan index and the list after it
detect_iteration(steps, i, optimized) ==
    LET pattern_length == find_pattern_length(steps, i)
    IN IF pattern_length > 1
       THEN LET repeat_count == count_pattern_repeats(steps, i, pattern_length)
            IN [i |-> i + pattern_length * repeat_count,
                optimized |-> Append(optimized,
                                     LoopStep(Len(optimized) + 1, repeat_count,
                                              SubSeq(steps, i + 1, i + pattern_length)))]
       ELSE [i |-> i + 1, optimized |-> Append(optimized, steps[i + 1])]

\* the while loop of _detect_and_optimize_loops
RECURSIVE DetectFrom(_, _, _)
DetectFrom(steps, i, optimized) ==
    IF i >= Len(steps) THEN optimized
    ELSE LET next == detect_iteration(steps, i, optimized)
         IN DetectFrom(steps, next.i, next.optimized)

\* _detect_and_optimize_loops
detect_and_optimize_loops(steps) == DetectFrom(steps, 0, <<>>)

\* a faulty test that takes no two steps for duplicates
is_redundant_never(step1, step2) == FALSE

\* _is_redundant
is_redundant(step1, step2) ==
    /\ StepAction(step1) = StepAction(step2)
    /\ PyEq(DictGet(step1, K("parameters"), None), DictGet(step2, K("parameters"), None))

\* _optimize_steps; _can_merge is always False, so prev_step is the step kept last
RECURSIVE optimize_steps(_)
optimize_steps(steps) ==
    IF steps = <<>> THEN <<>>
    ELSE LET optimized == optimize_steps(SubSeq(steps, 1, Len(steps) - 1))
             step == steps[Len(steps)]
         IN IF optimized # <<>> /\ is_redundant(optimized[Len(optimized)], step)
            THEN optimized
            ELSE Append(optimized, step)

\* RecordingSession(session_id='test_123', name='test_workflow', metadata={}), as
\* the tests of the generator construct it, at time 0
NewRecording ==
    [session_id |-> Tok("test_123"), name |-> Tok("test_workflow"),
     started_at |-> Num(0), ended_at |-> None, actions |-> <<>>,
     metadata |-> Dict(<<>>)]

\* generate_workflow
generate_workflow(config, session, workflow_name, tie) ==
    LET variables == IF config.extract_variables
                     THEN extract_variables(session.actions, tie) ELSE Dict(<<>>)
        converted == convert_actions_to_steps(session.actions, variables)
        folded == IF config.detect_loops THEN detect_and_optimize_loops(converted)
                  ELSE converted
        steps == IF config.optimize THEN optimize_steps(folded) ELSE folded
    IN Dict(<< <<K("name"), IF Truthy(workflow_name) THEN workflow_name ELSE session.name>>,
               <<K("description"),
                 Str(<<"Generated from recording session: ">> \o session.session_id.str)>>,
               <<K("version"), Tok("1.0")>>,
               <<K("metadata"),
                 DictMerge(Dict(<< <<K("generated_from"), session.session_id>>,
                                   <<K("generated_at"), session.ended_at>>,
                                   <<K("action_count"), Num(Len(session.actions))>> >>),
                           session.metadata)>>,
               <<K("variables"), variables>>,
               <<K("steps"), List(steps)>> >>)

----------------------------------------------------------------------------
(* replay_workflow (mcp-servers/integration/server.py).  W holds the        *)
(* arguments and locals of one call and its position pc.                    *)

\* replay_workflow has not been called
NotReplaying ==
    [pc |-> "idle", workflow_name |-> None, variables |-> None, actions |-> <<>>,
     calls |-> <<>>, results |-> <<>>, returned |-> None]

\* the parameters of a recorded action after substitution: a string that starts
\* with '${' names a variable, value[2:-1], and is replaced when that is given
replay_parameters(parameters, variables) ==
    IF ~Truthy(variables)
    THEN parameters
    ELSE Dict([i \in DOMAIN parameters.dict |->
                 LET value == parameters.dict[i][2]
                     var_name == SubSeq(value.str, 2, Len(value.str) - 1)
                 IN <<parameters.dict[i][1],
                      IF /\ IsStr(value) /\ value.str # <<>> /\ value.str[1] = "${"
                         /\ HasKey(variables, var_name)
                      THEN DictGet(variables, var_name, None)
                      ELSE value>>])

\* the dictionary replay_workflow returns after its loop
replay_result(W, results) ==
    Dict(<< <<K("success"), Bool(TRUE)>>,
            <<K("workflow_name"), W.workflow_name>>,
            <<K("actions_executed"), Num(Len(results))>>,
            <<K("results"), List(results)>> >>)

\* replay_workflow up to its loop: the session is loaded
replay_begin(R, workflow_name, variables) ==
    LET session == load_session(R, workflow_name)
        W == [NotReplaying EXCEPT !.workflow_name = workflow_name,
                                  !.variables = variables]
    IN IF IsNone(session)
       THEN [W EXCEPT !.pc = "done",
                      !.returned = Failure(<<"Workflow not found: ">>
                                           \o workflow_name.str)]
       ELSE IF session.actions = <<>>
       THEN [W EXCEPT !.pc = "done", !.returned = replay_result(W, <<>>)]
       ELSE [W EXCEPT !.pc = "loop", !.actions = session.actions]

\* the execute_secure_action call of the next pass of the loop
replay_call(W) ==
    LET action == W.actions[Len(W.results) + 1]
    IN [action_type |-> action.action_type, tool_name |-> action.tool_name,
        parameters |-> replay_parameters(action.parameters, W.variables)]

\* a faulty loop that goes on after a failed action
replay_after_no_break(W, call, result) ==
    LET results == Append(W.results, result)
        W1 == [W EXCEPT !.calls = Append(@, call), !.results = results]
    IN IF Len(results) = Len(W.actions)
       THEN [W1 EXCEPT !.pc = "done", !.returned = replay_result(W, results)]
       ELSE W1

\* the rest of a pass: results.append(result), the break on a failed action, and
\* the return once the loop is left
replay_after(W, call, result) ==
    LET results == Append(W.results, result)
        W1 == [W EXCEPT !.calls = Append(@, call), !.results = results]
    IN IF \/ ~Truthy(DictGet(result, K("success"), Bool(FALSE)))
          \/ Len(results) = Len(W.actions)
       THEN [W1 EXCEPT !.pc = "done", !.returned = replay_result(W, results)]
       ELSE W1

----------------------------------------------------------------------------
(* RateLimiter (mcp-servers/security/rate_limiter.py)                       *)

\* RateLimiter(config): the shipped settings scaled down to a few time units, one
\* action ('login') with limits of its own over a window longer than window_size
LimiterConfig ==
    [default_rate |-> 2, default_burst |-> 1, window_size |-> 1,
     action_limits |-> (<<"login">> :> [rate |-> 1, window |-> 3])]

\* self.action_limits.get(action, {'rate': default_rate, 'window': window_size})
Limits(action) ==
    IF action.str \in DOMAIN LimiterConfig.action_limits
    THEN LimiterConfig.action_limits[action.str]
    ELSE [rate |-> LimiterConfig.default_rate, window |-> LimiterConfig.window_size]

\* f"{identifier}:{action}"
BucketKey(identifier, action) == Str(identifier.str \o <<":">> \o action.str)

\* the default factory of self.buckets
NewBucket(now) ==
    [tokens |-> LimiterConfig.default_burst, last_update |-> now, requests |-> <<>>]

\* self.buckets[bucket_key] on a defaultdict: a missing bucket is created
WithBucket(B, bucket_key, now) ==
    IF bucket_key \in DOMAIN B THEN B ELSE MapPut(B, bucket_key, NewBucket(now))

\* while requests and requests[0] < current_time - window: requests.popleft()
RECURSIVE CleanOld(_, _, _)
CleanOld(requests, current_time, window) ==
    IF requests # <<>> /\ requests[1] < current_time - window
    THEN CleanOld(Tail(requests), current_time, window)
    ELSE requests

\* check_rate_limit: (is_allowed, message); wait_time is the number in the message
check_rate_limit(B, current_time, identifier, action) ==
    LET limits == Limits(action)
        bucket_key == BucketKey(identifier, action)
        B1 == WithBucket(B, bucket_key, current_time)
        requests == CleanOld(B1[bucket_key].requests, current_time, limits.window)
    IN IF Len(requests) < limits.rate
       THEN [B |-> [B1 EXCEPT ![bucket_key].requests = Append(requests, current_time)],
             allowed |-> TRUE, wait_time |-> None]
       ELSE [B |-> [B1 EXCEPT ![bucket_key].requests = requests],
             allowed |-> FALSE,
             wait_time |-> Num(limits.window - (current_time - requests[1]))]

\* get_remaining: the bucket is created and cleaned as a side effect
get_remaining(B, current_time, identifier, action) ==
    LET limits == Limits(action)
        bucket_key == BucketKey(identifier, action)
        B1 == WithBucket(B, bucket_key, current_time)
        requests == CleanOld(B1[bucket_key].requests, current_time, limits.window)
        remaining == limits.rate - Len(requests)
    IN [B |-> [B1 EXCEPT ![bucket_key].requests = requests],
        info |-> [remaining |-> IF remaining > 0 THEN remaining ELSE 0,
                  limit |-> limits.rate,
                  reset_time |-> IF requests # <<>>
                                 THEN Num(requests[1] + limits.window) ELSE None,
                  window |-> limits.window]]

\* cleanup: buckets whose last_update is older than two window_size are deleted
cleanup(B, current_time) ==
    LET expired == {bucket_key \in DOMAIN B :
                       current_time - B[bucket_key].last_update
                           > LimiterConfig.window_size * 2}
    IN [bucket_key \in DOMAIN B \ expired |-> B[bucket_key]]

----------------------------------------------------------------------------
(* Inputs *)

\* who asks, and for what: 'login' has limits of its own, 'api:login' falls back
\* to the defaults, and one identifier holds a ':' (an address, a scoped user id)
Requests ==
    { <<Str(<<"alice">>), Str(<<"login">>)>>,
      <<Str(<<"alice">>), Str(<<"api", ":", "login">>)>>,
      <<Str(<<"alice", ":", "api">>), Str(<<"login">>)>> }

Names == {Str(<<"a", " ", "b">>), Str(<<"a", "_", "b">>), Str(<<"a", "/", "b">>)}

NoMetadata == Dict(<<>>)

Call(action_type, tool_name, parameters) ==
    [action_type |-> Tok(action_type), tool_name |-> Tok(tool_name),
     parameters |-> Dict(parameters)]

\* what the callers of capture_action pass (tests/test_recorder.py)
CaptureInputs ==
    { [call |-> Call("vision", "analyze_screen",
                     << <<ScreenshotPathKey, Tok("test.png")>> >>),
       result |-> Dict(<< <<K("analysis"), Tok("Test screen")>> >>),
       success |-> TRUE, error |-> None],
      [call |-> Call("browser", "click", << <<K("selector"), Tok("#button")>> >>),
       result |-> Dict(<< <<K("error"), Tok("Element not found")>> >>),
       success |-> FALSE, error |-> Tok("Element not found")] }

MarkInputs == {<<Tok("vision"), Tok("analyze_screen")>>}

----------------------------------------------------------------------------
(* State after construction *)

InitRecorder ==
    /\ clock = 0
    /\ is_recording = FALSE
    /\ current_session = None
    /\ action_start_times = EmptyMap
    /\ storage = EmptyMap
    /\ ret = [op |-> "init", arg |-> None, raised |-> FALSE, val |-> None]

Tasks == 1..MaxTasks

\* a task that has not called execute_secure_action yet; marked_at is the time
\* its mark_action_start read, began_at the time it was called
NotCalled ==
    [pc |-> "idle", call |-> None, passed |-> FALSE, result |-> None,
     action_id |-> None, marked_at |-> None, began_at |-> None]

InitOrchestrator ==
    /\ orch_is_recording = FALSE
    /\ current_session_id = None
    /\ memory_log = <<>>
    /\ trace = <<>>
    /\ inflight = [t \in Tasks |-> NotCalled]

\* RateLimiter(): no bucket yet, no request allowed yet
InitLimiter ==
    /\ buckets = EmptyMap
    /\ granted = [pair \in Requests |-> <<>>]

InitReplayTool == replay = NotReplaying

InitAux == InitLimiter /\ InitReplayTool

\* generate_workflow has not been entered
NotEntered ==
    [stage |-> "recording", variables |-> None, steps |-> <<>>, i |-> 0,
     optimized |-> <<>>, result |-> <<>>]

InitGenerator ==
    /\ generator = DefaultConfig
    /\ recorded = NewRecording
    /\ workflow = None
    /\ pipeline = NotEntered

InitAgentIdle ==
    /\ agent = NewAgent(DefaultThreshold, TRUE)
    /\ issued = <<>>
    /\ run = NoRun

SetRec(R) ==
    /\ is_recording' = R.is_recording
    /\ current_session' = R.current_session
    /\ action_start_times' = R.action_start_times
    /\ storage' = R.storage

SetRet(op, arg, r) ==
    ret' = [op |-> op, arg |-> arg, raised |-> r.raised, val |-> r.val]

----------------------------------------------------------------------------
(* A WorkflowCapture used on its own *)

\* every call that reads time.time() sees a later time than the call before it
Advance ==
    /\ clock < MaxClock
    /\ clock' = clock + 1

RecStartRecording ==
    \E name \in Names :
        LET r == start_recording(RecState, clock, name, NoMetadata)
        IN /\ SetRec(r.R)
           /\ SetRet("start_recording", None, r)
           /\ Advance
           /\ UNCHANGED <<orchVars, envVars, agentVars>>

RecStopRecording ==
    LET r == stop_recording(RecState, clock)
    IN /\ SetRec(r.R)
       /\ SetRet("stop_recording", None, r)
       /\ Advance
       /\ UNCHANGED <<orchVars, envVars, agentVars>>

RecCaptureAction ==
    \E in \in CaptureInputs :
        LET r == capture_action(RecState, clock, in.call.action_type,
                                in.call.tool_name, in.call.parameters,
                                in.result, in.success, in.error)
        IN /\ SetRec(r.R)
           /\ SetRet("capture_action", in, r)
           /\ Advance
           /\ UNCHANGED <<orchVars, envVars, agentVars>>

RecMarkActionStart ==
    \E k \in MarkInputs :
        LET r == mark_action_start(RecState, clock, k[1], k[2])
        IN /\ SetRec(r.R)
           /\ SetRet("mark_action_start", None, r)
           /\ Advance
           /\ UNCHANGED <<orchVars, envVars, agentVars>>

SessionIds == {SessionId(t, name) : t \in 0..MaxClock, name \in Names}

RecLoadSession ==
    \E id \in SessionIds :
        /\ SetRet("load_session", id, Returned(RecState, load_session(RecState, id)))
        /\ UNCHANGED <<clock, recVars, orchVars, envVars, agentVars>>

RecGetSessionStats ==
    \E id \in SessionIds :
        /\ SetRet("get_session_stats", id,
                  Returned(RecState, get_session_stats(RecState, id)))
        /\ UNCHANGED <<clock, recVars, orchVars, envVars, agentVars>>

InitRec ==
    /\ InitRecorder /\ InitOrchestrator /\ InitAgentIdle /\ InitGenerator /\ InitAux
    /\ securityOK = TRUE /\ memoryOK = TRUE /\ visionOK = TRUE

NextRec ==
    \/ RecStartRecording
    \/ RecStopRecording
    \/ RecCaptureAction
    \/ RecMarkActionStart
    \/ RecLoadSession
    \/ RecGetSessionStats

SpecRecorder == InitRec /\ [][NextRec]_vars

----------------------------------------------------------------------------
(* An AIOrchestrator and its recorder, driven through the orchestrator *)

OrchNames == {Str(<<"a", " ", "b">>), Str(<<"a", "/", "b">>)}

\* what a vision analysis and a memory search return
SampleAnalysis == Dict(<< <<K("confidence"), Num(9)>> >>)
SampleMemories == Dict(<< <<K("total_count"), Num(0)>>, <<K("results"), List(<<>>)>> >>)

OrchCalls ==
    { Call("vision", "analyze_screen", << <<ScreenshotPathKey, Str(<<"test", ".png">>)>> >>),
      Call("browser", "click", << <<K("selector"), Tok("button")>> >>),
      Call("hands", "type", << <<K("text"), Tok("hello")>>,
                               <<K("command"), Str(<<"rm", " ", "-rf", " ", "/">>)>> >>),
      Call("memory", "search", << <<K("query"), Tok("login")>>, <<K("limit"), Num(5)>> >>),
      Call("shell", "run", << <<K("count"), Num(1)>> >>) }

\* what the collaborator behind a call can do
Outcomes(call) ==
    CASE call.action_type = Tok("vision") /\ call.tool_name = Tok("analyze_screen") ->
            {Ok(SampleAnalysis), Raises}
      [] call.action_type = Tok("memory") /\ call.tool_name = Tok("search") ->
            {Ok(SampleMemories), Raises}
      [] call.action_type = Tok("memory") /\ call.tool_name = Tok("store_screen") ->
            {Ok(Tok("mem_1")), Raises}
      [] OTHER -> {Raises}

\* what store_action_memory can do: return the new memory's id or raise
StoreOutcomes == {Ok(Tok("mem_2")), Raises}

SetOrch(O) ==
    /\ SetRec(O.R)
    /\ orch_is_recording' = O.is_recording
    /\ current_session_id' = O.current_session_id
    /\ memory_log' = O.memory_log

OrchStartRecording ==
    \E name \in OrchNames :
        LET r == orch_start_recording(OrchState, clock, name, NoMetadata)
        IN /\ SetOrch(r.O)
           /\ SetRet("start_recording", None, r)
           /\ Advance
           /\ UNCHANGED <<trace, envVars, agentVars>>

OrchStopRecording ==
    LET r == orch_stop_recording(OrchState, clock)
    IN /\ SetOrch(r.O)
       /\ SetRet("stop_recording", None, r)
       /\ Advance
       /\ UNCHANGED <<trace, envVars, agentVars>>

\* time.time() is read before the dispatch and after it
DispatchTime == 1

ExecuteSecureAction ==
    \E call \in OrchCalls :
        \E out \in Outcomes(call), stored \in StoreOutcomes :
            LET r == execute_secure_action(OrchState, Env, clock, DispatchTime,
                                           call.action_type, call.tool_name,
                                           call.parameters, out, stored)
            IN /\ clock + DispatchTime < MaxClock
               /\ clock' = clock + DispatchTime + 1
               /\ SetOrch(r.O)
               /\ trace' = r.trace
               /\ ret' = [op |-> "execute_secure_action", arg |-> call,
                          raised |-> FALSE, val |-> r.result,
                          dispatched |-> r.dispatched]
               /\ UNCHANGED <<envVars, agentVars>>

InitOrch ==
    /\ InitRecorder /\ InitOrchestrator /\ InitAgentIdle /\ InitGenerator /\ InitAux
    /\ securityOK \in BOOLEAN /\ memoryOK \in BOOLEAN /\ visionOK \in BOOLEAN

NextOrch ==
    \/ OrchStartRecording
    \/ OrchStopRecording
    \/ ExecuteSecureAction

SpecOrch == InitOrch /\ [][NextOrch]_vars

----------------------------------------------------------------------------
(* Several execute_secure_action coroutines in flight on one event loop while  *)
(* a session is recorded.  A coroutine runs without interruption from one      *)
(* await to the next: the event loop can switch tasks at `await                *)
(* self._validate_action(...)` and at `await self._execute_action(...)` and     *)
(* nowhere else, so mark_action_start runs with the start of the dispatch,     *)
(* and capture_action and _store_in_memory run with its end.                   *)

ConcurrentCalls ==
    { Call("vision", "analyze_screen", << <<ScreenshotPathKey, Str(<<"test", ".png">>)>> >>),
      Call("browser", "click", << <<K("selector"), Tok("button")>> >>),
      Call("hands", "type", << <<K("text"), Tok("hello")>>,
                               <<K("command"), Str(<<"rm", " ", "-rf", " ", "/">>)>> >>) }

InFlight(t) == inflight[t].pc \in {"validated", "dispatching"}

\* the orchestrator's start_recording, before any call is made
TaskStartRecording ==
    /\ ret.op = "init"
    /\ \E name \in OrchNames :
          LET r == orch_start_recording(OrchState, clock, name, NoMetadata)
          IN /\ SetOrch(r.O)
             /\ SetRet("start_recording", None, r)
    /\ clock' = clock + 1
    /\ UNCHANGED <<trace, securityOK, memoryOK, visionOK, auxVars, genVars, agentVars, inflight>>

\* task t calls execute_secure_action while the session is recorded and runs
\* to the end of the validation
TaskValidate(t) ==
    /\ orch_is_recording
    /\ inflight[t].pc = "idle"
    /\ \E call \in ConcurrentCalls :
          inflight' = [inflight EXCEPT ![t] =
              IF Env.security /\ ~validate_action(call.parameters)
              THEN [NotCalled EXCEPT !.pc = "returned", !.call = call,
                                     !.result = Blocked(call.parameters),
                                     !.began_at = Num(clock)]
              ELSE [NotCalled EXCEPT !.pc = "validated", !.call = call,
                                     !.passed = TRUE,
                                     !.began_at = Num(clock)]]
    /\ clock' = clock + 1
    /\ UNCHANGED <<recVars, orchVars, ret, securityOK, memoryOK, visionOK, auxVars, genVars,
                   agentVars>>

\* task t resumes after the validation: mark_action_start, then the dispatch begins
TaskDispatch(t) ==
    /\ inflight[t].pc = "validated"
    /\ LET call == inflight[t].call
           marked == IF orch_is_recording
                     THEN mark_action_start(RecState, clock, call.action_type,
                                            call.tool_name).R
                     ELSE RecState
       IN SetRec(marked)
    /\ inflight' = [inflight EXCEPT ![t].pc = "dispatching",
                                    ![t].marked_at = IF orch_is_recording
                                                     THEN Num(clock) ELSE None]
    /\ clock' = clock + 1
    /\ UNCHANGED <<orchVars, ret, securityOK, memoryOK, visionOK, auxVars, genVars, agentVars>>

\* task t resumes after the dispatch: capture_action, _store_in_memory, return
TaskComplete(t) ==
    /\ inflight[t].pc = "dispatching"
    /\ \E out \in Outcomes(inflight[t].call), stored \in StoreOutcomes :
          LET call == inflight[t].call
              done == execute_action(call.action_type, call.tool_name,
                                     call.parameters, out, Env.vision, Env.memory)
              result == done.result
              success == DictGet(result, K("success"), Bool(TRUE)).bool
              captured == IF orch_is_recording
                          THEN capture_action(RecState, clock, call.action_type,
                                              call.tool_name, call.parameters,
                                              result, success,
                                              DictGet(result, K("error"), None))
                          ELSE Returned(RecState, None)
              write == IF Env.memory /\ success
                       THEN store_in_memory(memory_log, Env.memory,
                                            MemoryWrite(call.action_type,
                                                        call.tool_name,
                                                        call.parameters, result),
                                            stored)
                       ELSE [log |-> memory_log, raised |-> FALSE, steps |-> <<>>]
          IN /\ SetRec(captured.R)
             /\ memory_log' = write.log
             /\ inflight' = [inflight EXCEPT ![t].pc = "returned",
                                             ![t].result = result,
                                             ![t].action_id = captured.val]
             /\ ret' = [op |-> "execute_secure_action", arg |-> call,
                        raised |-> FALSE, val |-> result, dispatched |-> result]
    /\ clock' = clock + 1
    /\ UNCHANGED <<orch_is_recording, current_session_id, trace, securityOK,
                   memoryOK, visionOK, auxVars, genVars, agentVars>>

\* the orchestrator's stop_recording, once no call is in flight
TaskStopRecording ==
    /\ orch_is_recording
    /\ \A t \in Tasks : ~InFlight(t)
    /\ LET r == orch_stop_recording(OrchState, clock)
       IN /\ SetOrch(r.O)
          /\ SetRet("stop_recording", None, r)
    /\ clock' = clock + 1
    /\ UNCHANGED <<trace, securityOK, memoryOK, visionOK, auxVars, genVars, agentVars, inflight>>

\* the vision analyzer and the memory manager have loaded
InitConcurrent ==
    /\ InitRecorder /\ InitOrchestrator /\ InitAgentIdle /\ InitGenerator /\ InitAux
    /\ securityOK \in BOOLEAN /\ memoryOK = TRUE /\ visionOK = TRUE

NextConcurrent ==
    \/ TaskStartRecording
    \/ \E t \in Tasks : TaskValidate(t)
    \/ \E t \in Tasks : TaskDispatch(t)
    \/ \E t \in Tasks : TaskComplete(t)
    \/ TaskStopRecording

SpecConcurrent == InitConcurrent /\ [][NextConcurrent]_vars

----------------------------------------------------------------------------
(* One goal cycle of an AutonomousAgent over its orchestrator.  Nothing is  *)
(* being recorded, so no step reads the time.                               *)

Goals == {Str(<<"log", " ", "in">>)}
Screenshots == {Str(<<"screen", ".png">>)}

Recommended(type, tool, parameters) ==
    Dict(<< <<K("type"), Tok(type)>>, <<K("tool"), Tok(tool)>>,
            <<K("parameters"), Dict(parameters)>> >>)

SearchLogin == Recommended("memory", "search", << <<K("query"), Tok("login")>> >>)
ClickButton == Recommended("browser", "click", << <<K("selector"), Tok("button")>> >>)

\* what the vision collaborator returns for a screen
Analyses ==
    { Dict(<< <<K("confidence"), Num(9)>>,
              <<K("recommended_actions"), List(<<SearchLogin, ClickButton, SearchLogin>>)>> >>),
      Dict(<< <<K("confidence"), Num(DefaultThreshold)>>,
              <<K("recommended_actions"), List(<<SearchLogin, SearchLogin>>)>> >>),
      Dict(<< <<K("confidence"), Num(3)>> >>),
      Dict(<< <<K("confidence"), Num(9)>> >>),
      Dict(<<>>),
      Tok("a login form") }

PastSuccess == Dict(<< <<K("id"), Tok("mem_1")>>, <<K("success"), Bool(TRUE)>> >>)
PastFailure == Dict(<< <<K("id"), Tok("mem_2")>>, <<K("success"), Bool(FALSE)>> >>)

\* what the memory collaborator returns for a search
Recalls ==
    { Dict(<< <<K("results"), List(<<PastFailure, PastSuccess>>)>> >>),
      Dict(<< <<K("results"), List(<<PastFailure>>)>> >>),
      List(<<PastSuccess>>) }

\* what the collaborators return within a run of execute_goal_autonomously: fewer
\* values, so that runs of several cycles stay within reach
RunAnalyses ==
    { Dict(<< <<K("confidence"), Num(9)>>,
              <<K("recommended_actions"), List(<<SearchLogin>>)>> >>),
      Dict(<< <<K("confidence"), Num(3)>> >>),
      Tok("a login form") }

RunRecalls == { Dict(<< <<K("results"), List(<<PastSuccess>>)>> >>) }

\* what the collaborator behind a call of the agent can do
AgentOutcomes(call) ==
    CASE call.action_type = Tok("vision") /\ call.tool_name = Tok("analyze_screen") ->
            {Ok(v) : v \in IF run.pc = "idle" THEN Analyses ELSE RunAnalyses}
               \cup {Raises}
      [] call.action_type = Tok("memory") /\ call.tool_name = Tok("search") ->
            {Ok(v) : v \in IF run.pc = "idle" THEN Recalls ELSE RunRecalls}
               \cup {Raises}
      [] OTHER -> {Raises}

\* the agent awaits execute_secure_action
Issue(phase, call, r) ==
    /\ SetOrch(r.O)
    /\ trace' = r.trace
    /\ issued' = Append(issued, [phase |-> phase, call |-> call, result |-> r.result])
    /\ ret' = [op |-> "execute_secure_action", arg |-> call,
               raised |-> FALSE, val |-> r.result,
                          dispatched |-> r.dispatched]
    /\ UNCHANGED <<clock, envVars>>

\* in the agent's runs store_action_memory returns
Executed(call, out) ==
    execute_secure_action(OrchState, Env, clock, DispatchTime,
                          call.action_type, call.tool_name, call.parameters, out,
                          Ok(Tok("mem_2")))

\* analyze_and_act(screenshot_path, goal) is called on agent a: ANALYZE
AnalyzeWith(a, goal, screenshot_path) ==
    LET call == AnalyzeCall(screenshot_path, goal)
    IN \E out \in AgentOutcomes(call) :
          LET r == Executed(call, out)
          IN /\ Issue("ANALYZE", call, r)
             /\ agent' = analyze_step([a EXCEPT !.goal = goal,
                                                !.screenshot_path = screenshot_path],
                                      r.result)

\* analyze_and_act is called from outside
Analyze ==
    /\ agent.pc = "idle"
    /\ run.pc = "idle"
    /\ \E goal \in Goals, screenshot_path \in Screenshots :
          AnalyzeWith(agent, goal, screenshot_path)
    /\ UNCHANGED run

\* RECALL
Recall ==
    /\ agent.pc = "recall"
    /\ LET call == RecallCall(agent.goal)
       IN \E out \in AgentOutcomes(call) :
             LET r == Executed(call, out)
             IN /\ Issue("RECALL", call, r)
                /\ agent' = recall_step(agent, r.result)
                /\ UNCHANGED run

\* DECIDE
Decide ==
    /\ agent.pc = "decide"
    /\ agent' = decide_step(agent)
    /\ ret' = [op |-> "decide_action", arg |-> None, raised |-> FALSE, val |-> None]
    /\ UNCHANGED <<clock, recVars, orchVars, envVars, issued, run>>

\* EXECUTE: the next primary action of the plan
ExecutePrimary ==
    /\ agent.pc = "execute"
    /\ LET call == ActionCall(PlanActions(agent)[agent.i])
       IN \E out \in AgentOutcomes(call) :
             LET r == Executed(call, out)
             IN /\ Issue("EXECUTE", call, r)
                /\ agent' = primary_step(agent, r.result)
                /\ UNCHANGED run

\* EXECUTE: the next fallback action of the plan
ExecuteFallback ==
    /\ agent.pc = "fallback"
    /\ LET call == ActionCall(FallbackActions(agent)[agent.j])
       IN \E out \in AgentOutcomes(call) :
             LET r == Executed(call, out)
             IN /\ Issue("FALLBACK", call, r)
                /\ agent' = fallback_step(agent, r.result)
                /\ UNCHANGED run

\* LEARN
Learn ==
    /\ agent.pc = "learn"
    /\ LET call == LearnCall(agent)
       IN \E out \in AgentOutcomes(call) :
             LET r == Executed(call, out)
             IN /\ Issue("LEARN", call, r)
                /\ agent' = learn_step(agent, r.result)
                /\ UNCHANGED run

InitAgent ==
    /\ InitRecorder /\ InitOrchestrator /\ InitGenerator /\ InitAux
    /\ securityOK \in BOOLEAN /\ memoryOK \in BOOLEAN /\ visionOK \in BOOLEAN
    /\ \E learning_enabled \in BOOLEAN :
          agent = NewAgent(DefaultThreshold, learning_enabled)
    /\ issued = <<>>
    /\ run = NoRun

NextAgent ==
    \/ Analyze
    \/ Recall
    \/ Decide
    \/ ExecutePrimary
    \/ ExecuteFallback
    \/ Learn

SpecAgent == InitAgent /\ [][NextAgent]_vars

----------------------------------------------------------------------------
(* _decide_action on its own, over every analysis and recall of its domain *)

Thresholds == {0, DefaultThreshold, 10}

Confidences == 0..10

DecideAnalyses ==
    {Dict(<< <<K("confidence"), Num(c)>> >>) : c \in Confidences} \cup {Dict(<<>>)}

Experiences ==
    { PastSuccess, PastFailure, Dict(<< <<K("id"), Tok("mem_3")>> >>),
      Dict(<< <<K("id"), Tok("mem_4")>>, <<K("success"), Num(1)>> >>) }

DecideRecalls ==
    {List(<<>>)} \cup {List(<<e>>) : e \in Experiences}
                 \cup {List(<<e, f>>) : e \in Experiences, f \in Experiences}

InitDecide ==
    /\ InitRecorder /\ InitOrchestrator /\ InitGenerator /\ InitAux
    /\ securityOK = FALSE /\ memoryOK = TRUE /\ visionOK = TRUE
    /\ issued = <<>>
    /\ run = NoRun
    /\ \E t \in Thresholds, analysis \in DecideAnalyses, recalled \in DecideRecalls,
          goal \in Goals :
          agent = [NewAgent(t, FALSE) EXCEPT !.pc = "decide", !.goal = goal,
                                             !.analysis = analysis,
                                             !.similar_experiences = recalled]

NextDecide == Decide

SpecDecide == InitDecide /\ [][NextDecide]_vars

----------------------------------------------------------------------------
(* execute_goal_autonomously: goal cycles of one agent, one after another  *)

MaxIterations == 2

\* execute_goal_autonomously(goal, initial_screenshot, max_iterations) is called
ExecuteGoalAutonomously ==
    /\ run.pc = "idle"
    /\ \E goal \in Goals, initial_screenshot \in Screenshots \cup {None},
          max_iterations \in 0..MaxIterations :
          run' = BeginRun(goal, initial_screenshot, max_iterations)
    /\ ret' = [op |-> "execute_goal_autonomously", arg |-> None,
               raised |-> FALSE, val |-> None]
    /\ UNCHANGED <<clock, recVars, orchVars, envVars, agent, issued>>

\* the loop is entered again: the iteration begins and awaits its ANALYZE request
Iterate ==
    /\ run.pc = "loop"
    /\ ShouldContinue(run)
    /\ run' = begin_iteration(run)
    /\ AnalyzeWith(NextCycle(agent), run.goal, run'.current_screenshot)

\* analyze_and_act has returned: the rest of the iteration
EndIteration ==
    /\ run.pc = "cycle"
    /\ CycleReturned(agent)
    /\ run' = end_iteration(run, agent.outcome)
    /\ ret' = [op |-> "analyze_and_act", arg |-> None,
               raised |-> ~IsDict(agent.outcome), val |-> agent.outcome]
    /\ UNCHANGED <<clock, recVars, orchVars, envVars, agent, issued>>

\* the loop is left and the result is returned
ReturnRun ==
    /\ run.pc = "loop"
    /\ ~ShouldContinue(run)
    /\ run' = [run EXCEPT !.pc = "returned", !.result = RunResult(run)]
    /\ ret' = [op |-> "execute_goal_autonomously", arg |-> None,
               raised |-> FALSE, val |-> RunResult(run)]
    /\ UNCHANGED <<clock, recVars, orchVars, envVars, agent, issued>>

InitGoal ==
    /\ InitRecorder /\ InitOrchestrator /\ InitGenerator /\ InitAux
    /\ securityOK \in BOOLEAN /\ memoryOK \in BOOLEAN /\ visionOK \in BOOLEAN
    /\ \E learning_enabled \in BOOLEAN :
          agent = NewAgent(DefaultThreshold, learning_enabled)
    /\ issued = <<>>
    /\ run = NoRun

NextGoal ==
    \/ ExecuteGoalAutonomously
    \/ Iterate
    \/ Recall
    \/ Decide
    \/ ExecutePrimary
    \/ ExecuteFallback
    \/ Learn
    \/ EndIteration
    \/ ReturnRun

SpecGoal == InitGoal /\ [][NextGoal]_vars

----------------------------------------------------------------------------
(* An agent with a task history, the goal cycles of its runs, and          *)
(* get_agent_stats                                                         *)

\* entries of task_history: a success, a failure, and one that says neither
TaskSucceeded == Dict(<< <<K("goal"), Tok("login")>>, <<K("success"), Bool(TRUE)>> >>)
TaskFailed == Dict(<< <<K("goal"), Tok("login")>>, <<K("success"), Bool(FALSE)>> >>)
TaskUnmarked == Dict(<< <<K("goal"), Tok("login")>> >>)

TaskHistories ==
    { <<>>, <<TaskSucceeded>>, <<TaskUnmarked>>, <<TaskFailed, TaskSucceeded>>,
      <<TaskSucceeded, TaskUnmarked, TaskFailed, TaskSucceeded>> }

\* get_agent_stats() is called, before a run or after one: it is not a
\* coroutine, and a run gives the event loop no chance to call it in between
GetAgentStats ==
    /\ run.pc \in {"idle", "returned"}
    /\ ret.op # "get_agent_stats"
    /\ ret' = [op |-> "get_agent_stats", arg |-> None, raised |-> FALSE,
               val |-> get_agent_stats(agent, OrchState)]
    /\ UNCHANGED <<clock, recVars, orchVars, envVars, agentVars>>

\* task_history and current_task hold what the program around the agent put there
InitStats ==
    /\ InitRecorder /\ InitOrchestrator /\ InitGenerator /\ InitAux
    /\ securityOK \in BOOLEAN /\ memoryOK \in BOOLEAN /\ visionOK \in BOOLEAN
    /\ \E learning_enabled \in BOOLEAN, task_history \in TaskHistories,
          current_task \in Goals \cup {None} :
          agent = [NewAgent(DefaultThreshold, learning_enabled)
                      EXCEPT !.task_history = task_history,
                             !.current_task = current_task]
    /\ issued = <<>>
    /\ run = NoRun

NextStats ==
    \/ NextGoal
    \/ GetAgentStats

SpecStats == InitStats /\ [][NextStats]_vars

----------------------------------------------------------------------------
(* generate_workflow over the sessions of up to MaxActions actions, as the  *)
(* tests build them: a RecordingSession to which actions are appended.      *)

MaxActions == 6

\* CapturedAction(...) as the tests of the generator construct it
Captured(tool_name, parameters, more) ==
    CapturedAction(Dict(<< <<K("timestamp"), Num(0)>>,
                           <<K("action_type"), Tok("browser")>>,
                           <<K("tool_name"), Tok(tool_name)>>,
                           <<K("parameters"), Dict(parameters)>> >> \o more))

ClickA == Captured("click", << <<K("selector"), Tok("#a")>> >>, <<>>)

ClickAFailed ==
    Captured("click", << <<K("selector"), Tok("#a")>> >>,
             << <<K("success"), Bool(FALSE)>>, <<K("error"), Tok("Element not found")>> >>)

TypeFoo ==
    Captured("type", << <<K("selector"), Tok("#input")>>, <<K("text"), Tok("foo")>>,
                        <<K("keys"), List(<<Tok("Enter")>>)>> >>,
             << <<K("result"), Dict(<< <<K("success"), Bool(TRUE)>>,
                                       <<K("typed"), Num(3)>> >>)>>,
                <<K("duration_ms"), Num(2000)>> >>)

TypeBar ==
    Captured("type", << <<K("selector"), Tok("#input")>>, <<K("text"), Tok("bar")>> >>, <<>>)

GeneratorActions == {ClickA, ClickAFailed, TypeFoo, TypeBar}

\* session.actions.append(action)
AppendAction ==
    /\ IsNone(workflow)
    /\ Len(recorded.actions) < MaxActions
    /\ \E action \in GeneratorActions :
          /\ recorded' = [recorded EXCEPT !.actions = Append(@, action)]
          /\ ret' = [op |-> "append", arg |-> None, raised |-> FALSE, val |-> None]
    /\ UNCHANGED <<clock, recVars, orchVars, securityOK, memoryOK, visionOK, auxVars,
                   agentVars, generator, workflow, pipeline, inflight>>

\* generator.generate_workflow(session)
GenerateWorkflow ==
    /\ IsNone(workflow)
    /\ \E tie \in Ties :
          /\ workflow' = generate_workflow(generator, recorded, None, tie)
          /\ ret' = [op |-> "generate_workflow", arg |-> None, raised |-> FALSE,
                     val |-> generate_workflow(generator, recorded, None, tie)]
    /\ UNCHANGED <<clock, recVars, orchVars, securityOK, memoryOK, visionOK, auxVars,
                   agentVars, generator, recorded, pipeline, inflight>>

InitWorkflow ==
    /\ InitRecorder /\ InitOrchestrator /\ InitAgentIdle /\ InitGenerator /\ InitAux
    /\ securityOK = TRUE /\ memoryOK = TRUE /\ visionOK = TRUE

NextWorkflow ==
    \/ AppendAction
    \/ GenerateWorkflow

SpecWorkflow == InitWorkflow /\ [][NextWorkflow]_vars

----------------------------------------------------------------------------
(* generate_workflow taken statement by statement, the while loop of          *)
(* _detect_and_optimize_loops one pass at a time, on sessions long enough for *)
(* two loops in a row                                                          *)

MaxSteps == 7

StepActions == {ClickA, TypeFoo, TypeBar}

\* an action is recorded before the generator is called
RecordAction ==
    /\ pipeline.stage = "recording"
    /\ Len(recorded.actions) < MaxSteps
    /\ \E action \in StepActions :
          recorded' = [recorded EXCEPT !.actions = Append(@, action)]
    /\ ret' = [op |-> "append", arg |-> None, raised |-> FALSE, val |-> None]
    /\ UNCHANGED <<clock, recVars, orchVars, securityOK, memoryOK, visionOK, auxVars,
                   agentVars, generator, workflow, pipeline, inflight>>

GeneratorStep(next) ==
    /\ pipeline' = next
    /\ ret' = [op |-> "generate_workflow", arg |-> None, raised |-> FALSE,
               val |-> None]
    /\ UNCHANGED <<clock, recVars, orchVars, securityOK, memoryOK, visionOK, auxVars,
                   agentVars, generator, recorded, workflow, inflight>>

\* generate_workflow is entered: _extract_variables, _convert_actions_to_steps,
\* and _detect_and_optimize_loops up to its while loop
ConvertActions ==
    /\ pipeline.stage = "recording"
    /\ \E tie \in Ties :
          LET variables == IF generator.extract_variables
                           THEN extract_variables(recorded.actions, tie)
                           ELSE Dict(<<>>)
          IN GeneratorStep([pipeline EXCEPT
                 !.stage = "detecting",
                 !.variables = variables,
                 !.steps = convert_actions_to_steps(recorded.actions, variables),
                 !.i = 0,
                 !.optimized = <<>>])

\* one pass of the while loop
DetectIteration ==
    /\ pipeline.stage = "detecting"
    /\ pipeline.i < Len(pipeline.steps)
    /\ LET next == detect_iteration(pipeline.steps, pipeline.i, pipeline.optimized)
       IN GeneratorStep([pipeline EXCEPT !.i = next.i, !.optimized = next.optimized])

\* the while loop is left; _optimize_steps
OptimizeSteps ==
    /\ pipeline.stage = "detecting"
    /\ pipeline.i >= Len(pipeline.steps)
    /\ GeneratorStep([pipeline EXCEPT
           !.stage = "optimized",
           !.result = IF generator.optimize THEN optimize_steps(pipeline.optimized)
                      ELSE pipeline.optimized])

InitSteps ==
    /\ InitRecorder /\ InitOrchestrator /\ InitAgentIdle /\ InitGenerator /\ InitAux
    /\ securityOK = TRUE /\ memoryOK = TRUE /\ visionOK = TRUE

NextSteps ==
    \/ RecordAction
    \/ ConvertActions
    \/ DetectIteration
    \/ OptimizeSteps

SpecSteps == InitSteps /\ [][NextSteps]_vars


----------------------------------------------------------------------------
(* A RateLimiter used on its own: check_rate_limit, get_remaining and cleanup *)
(* at any times, with no reset_limit and no consume_tokens                   *)

\* how long the limiter is watched
MaxTime == 3

SetLimited(op, arg, val) ==
    /\ ret' = [op |-> op, arg |-> arg, raised |-> FALSE, val |-> val]
    /\ UNCHANGED <<recVars, orchVars, agentVars, securityOK, memoryOK, visionOK,
                   genVars, inflight, replay>>

\* time.time() moves on between two calls
TimePasses ==
    /\ clock < MaxTime
    /\ clock' = clock + 1
    /\ SetLimited("time", None, None)
    /\ UNCHANGED limVars

LimCheckRateLimit ==
    \E pair \in Requests :
        LET r == check_rate_limit(buckets, clock, pair[1], pair[2])
        IN /\ buckets' = r.B
           /\ granted' = IF r.allowed
                         THEN [granted EXCEPT ![pair] = Append(@, clock)]
                         ELSE granted
           /\ SetLimited("check_rate_limit", pair,
                         [allowed |-> r.allowed, wait_time |-> r.wait_time])
           /\ UNCHANGED clock

LimGetRemaining ==
    \E pair \in Requests :
        LET r == get_remaining(buckets, clock, pair[1], pair[2])
        IN /\ buckets' = r.B
           /\ SetLimited("get_remaining", pair, r.info)
           /\ UNCHANGED <<clock, granted>>

LimCleanup ==
    /\ buckets' = cleanup(buckets, clock)
    /\ SetLimited("cleanup", None, None)
    /\ UNCHANGED <<clock, granted>>

InitLimiting ==
    /\ InitRecorder /\ InitOrchestrator /\ InitAgentIdle /\ InitGenerator /\ InitAux
    /\ securityOK = TRUE /\ memoryOK = TRUE /\ visionOK = TRUE

NextLimiting ==
    \/ TimePasses
    \/ LimCheckRateLimit
    \/ LimGetRemaining
    \/ LimCleanup

SpecLimiter == InitLimiting /\ [][NextLimiting]_vars

----------------------------------------------------------------------------
(* replay_workflow on a stored session, with the orchestrator not recording *)

MaxReplayed == 3

AnalyzeRecorded ==
    CapturedAction(Dict(<< <<K("timestamp"), Num(0)>>,
                           <<K("action_type"), Tok("vision")>>,
                           <<K("tool_name"), Tok("analyze_screen")>>,
                           <<K("parameters"),
                             Dict(<< <<ScreenshotPathKey, Str(<<"test", ".png">>)>> >>)>> >>))

SearchRecorded ==
    CapturedAction(Dict(<< <<K("timestamp"), Num(0)>>,
                           <<K("action_type"), Tok("memory")>>,
                           <<K("tool_name"), Tok("search")>>,
                           <<K("parameters"),
                             Dict(<< <<K("query"), VarRef(VarName(1))>> >>)>> >>))

ClickRecorded ==
    CapturedAction(Dict(<< <<K("timestamp"), Num(0)>>,
                           <<K("action_type"), Tok("browser")>>,
                           <<K("tool_name"), Tok("click")>>,
                           <<K("parameters"),
                             Dict(<< <<K("selector"), Tok("button")>> >>)>>,
                           <<K("success"), Bool(FALSE)>>,
                           <<K("error"), Tok("Browser control not yet implemented")>> >>))

ReplayedActions == {AnalyzeRecorded, SearchRecorded, ClickRecorded}

\* a session as stop_recording left it in the storage directory
StoredSession(actions) ==
    [session_id |-> Tok("session_0_a"), name |-> Tok("a"), started_at |-> Num(0),
     ended_at |-> Num(1), actions |-> actions, metadata |-> Dict(<<>>)]

\* the variables argument: not given, a harmless value, an injection
ReplayVariables ==
    { None,
      Dict(<< <<VarName(1), Tok("login")>> >>),
      Dict(<< <<VarName(1), Str(<<"x", ";", " ", "drop", " ", "table">>)>> >>) }

ReplayNames == {Tok("session_0_a"), Tok("missing")}

\* replay_workflow is called and loads the session
ReplayWorkflow ==
    /\ replay.pc = "idle"
    /\ \E workflow_name \in ReplayNames, variables \in ReplayVariables :
          replay' = replay_begin(RecState, workflow_name, variables)
    /\ ret' = [op |-> "replay_workflow", arg |-> None, raised |-> FALSE,
               val |-> replay'.returned]
    /\ UNCHANGED <<clock, recVars, orchVars, agentVars, securityOK, memoryOK,
                   visionOK, limVars, genVars, inflight>>

\* one pass of the loop: the action goes to execute_secure_action
ReplayAction ==
    /\ replay.pc = "loop"
    /\ LET call == replay_call(replay)
       IN \E out \in Outcomes(call), stored \in StoreOutcomes :
             LET r == execute_secure_action(OrchState, Env, clock, DispatchTime,
                                            call.action_type, call.tool_name,
                                            call.parameters, out, stored)
             IN /\ SetOrch(r.O)
                /\ trace' = r.trace
                /\ ret' = [op |-> "execute_secure_action", arg |-> call,
                           raised |-> FALSE, val |-> r.result,
                           dispatched |-> r.dispatched]
                /\ replay' = replay_after(replay, call, r.result)
    /\ UNCHANGED <<clock, agentVars, securityOK, memoryOK, visionOK, limVars,
                   genVars, inflight>>

InitReplay ==
    /\ clock = 0
    /\ is_recording = FALSE
    /\ current_session = None
    /\ action_start_times = EmptyMap
    /\ \E n \in 0..MaxReplayed :
          \E actions \in [1..n -> ReplayedActions] :
             storage = save_session([storage |-> EmptyMap],
                                    StoredSession(actions)).R.storage
    /\ ret = [op |-> "init", arg |-> None, raised |-> FALSE, val |-> None]
    /\ InitOrchestrator /\ InitAgentIdle /\ InitGenerator /\ InitAux
    /\ securityOK \in BOOLEAN /\ memoryOK \in BOOLEAN /\ visionOK \in BOOLEAN

NextReplay ==
    \/ ReplayWorkflow
    \/ ReplayAction

SpecReplay == InitReplay /\ [][NextReplay]_vars

----------------------------------------------------------------------------
(* The orchestrator with a validator that can raise *)

\* what validate_input can do when called: check its input or raise
ValidatorOutcomes == {"checks", "raises"}

GatedCalls ==
    OrchCalls \cup {Call("vision", "analyze_screen", << <<K("region"), Num(1)>> >>)}

ExecuteUnderValidator ==
    \E call \in GatedCalls, validator \in ValidatorOutcomes :
        \E out \in Outcomes(call), stored \in StoreOutcomes :
            LET r == execute_secure_action(OrchState,
                                           [Env EXCEPT !.validator = validator],
                                           clock, DispatchTime,
                                           call.action_type, call.tool_name,
                                           call.parameters, out, stored)
            IN /\ clock + DispatchTime < MaxClock
               /\ clock' = clock + DispatchTime + 1
               /\ SetOrch(r.O)
               /\ trace' = r.trace
               /\ ret' = [op |-> "execute_secure_action", arg |-> call,
                          raised |-> FALSE, val |-> r.result,
                          dispatched |-> r.dispatched, validator |-> validator]
               /\ UNCHANGED <<envVars, agentVars>>

NextGate ==
    \/ OrchStartRecording
    \/ OrchStopRecording
    \/ ExecuteUnderValidator

SpecGate == InitOrch /\ [][NextGate]_vars

----------------------------------------------------------------------------
(* Calls in flight while the recording is stopped and started again *)

\* stop_recording, whatever is in flight
StopInFlight ==
    /\ clock < MaxClock
    /\ orch_is_recording
    /\ LET r == orch_stop_recording(OrchState, clock)
       IN /\ SetOrch(r.O)
          /\ SetRet("stop_recording", None, r)
    /\ clock' = clock + 1
    /\ UNCHANGED <<trace, envVars, agentVars>>

\* start_recording, whatever is in flight
StartInFlight ==
    /\ clock < MaxClock
    /\ \E name \in OrchNames :
          LET r == orch_start_recording(OrchState, clock, name, NoMetadata)
          IN /\ SetOrch(r.O)
             /\ SetRet("start_recording", None, r)
    /\ clock' = clock + 1
    /\ UNCHANGED <<trace, envVars, agentVars>>

NextSwitching ==
    \/ StartInFlight
    \/ StopInFlight
    \/ \E t \in Tasks : TaskValidate(t)
    \/ \E t \in Tasks : TaskDispatch(t)
    \/ \E t \in Tasks : TaskComplete(t)

SpecSwitching == InitConcurrent /\ [][NextSwitching]_vars

----------------------------------------------------------------------------
(* Properties of the recorder *)

\* the fields of a captured action that a replay depends on
Payload(a) ==
    <<a.action_type, a.tool_name, a.parameters, a.success, a.error>>

Payloads(actions) == [i \in DOMAIN actions |-> Payload(actions[i])]

Active == is_recording /\ ~IsNone(current_session)

C4_ImplicitStop ==
    [][ (ret'.op = "start_recording" /\ ~ret'.raised /\ Active)
        => LET loaded == load_session(RecState', current_session.session_id)
           IN /\ ~IsNone(loaded)
              /\ ~IsNone(loaded.ended_at)
              /\ loaded.name = current_session.name
              /\ Payloads(loaded.actions) = Payloads(current_session.actions)
              /\ is_recording'
              /\ ~IsNone(current_session')
              /\ current_session'.session_id = ret'.val
              /\ current_session'.actions = <<>> ]_vars

\* a start has just returned and the store holds a session with an action that was
\* sealed at the instant the new session started: a restart while active
C4_Witness ==
    /\ ret.op = "start_recording" /\ ~ret.raised /\ Active
    /\ current_session.actions = <<>>
    /\ \E id \in DOMAIN storage :
          LET loaded == load_session(RecState, id)
          IN /\ loaded.ended_at = current_session.started_at
             /\ Len(loaded.actions) >= 1

\* C5 (as claimed): once a session is stored, what load_session returns for its id
\* never changes, whatever is recorded later.
C5_SealedImmutable ==
    [][ \A id \in DOMAIN storage :
            load_session(RecState', id) = load_session(RecState, id) ]_vars

\* C6: while a session is active, capture_action extends its list by exactly one
\* element at the end, built from the call's arguments, and neither it nor
\* mark_action_start, get_session_stats or load_session changes an element that is
\* already in the list.
C6_AppendOnly ==
    [][ (Active /\ ret'.op \in {"capture_action", "mark_action_start",
                                "load_session", "get_session_stats"})
        => /\ Active'
           /\ current_session'.session_id = current_session.session_id
           /\ IF ret'.op = "capture_action"
              THEN /\ Len(current_session'.actions) = Len(current_session.actions) + 1
                   /\ SubSeq(current_session'.actions, 1, Len(current_session.actions))
                        = current_session.actions
                   /\ Payload(current_session'.actions[Len(current_session'.actions)])
                        = <<ret'.arg.call.action_type, ret'.arg.call.tool_name,
                            ret'.arg.call.parameters, Bool(ret'.arg.success),
                            ret'.arg.error>>
              ELSE current_session'.actions = current_session.actions ]_vars

\* a capture has just extended an active session to two actions
C6_Witness ==
    /\ ret.op = "capture_action" /\ Active
    /\ Len(current_session.actions) = 2
    /\ ret.val = Str(<<"action_", "2">>)

----------------------------------------------------------------------------
(* Properties of the orchestrator *)

\* the validator rejects some string-valued parameter
SomeRejected(parameters) ==
    \E i \in DOMAIN parameters.dict :
        /\ IsStr(parameters.dict[i][2])
        /\ ~validate_input(parameters.dict[i][2],
                           detect_input_type(parameters.dict[i][1]))

\* the call is stopped by the security gate
Gated(parameters) == securityOK /\ SomeRejected(parameters)

Count(seq, e) == Cardinality({i \in DOMAIN seq : seq[i] = e})

\* the position of the first e in seq, 0 when there is none
Pos(seq, e) ==
    IF Count(seq, e) = 0 THEN 0
    ELSE CHOOSE i \in DOMAIN seq : seq[i] = e /\ \A j \in 1..(i - 1) : seq[j] # e

\* C1: a call in which the validator rejects a string parameter returns
\* blocked=true and success=false, and does nothing else: no dispatch and no
\* handler, no mark_action_start and no capture_action (the session and the timing
\* map are unchanged), no store_action_memory.
C1_BlockedNoEffect ==
    [][ (ret'.op = "execute_secure_action" /\ Gated(ret'.arg.parameters))
        => /\ DictGet(ret'.val, K("blocked"), Bool(FALSE)) = Bool(TRUE)
           /\ DictGet(ret'.val, K("success"), Bool(TRUE)) = Bool(FALSE)
           /\ trace' = <<"validate">>
           /\ current_session' = current_session
           /\ action_start_times' = action_start_times
           /\ is_recording' = is_recording
           /\ storage' = storage
           /\ memory_log' = memory_log
           /\ orch_is_recording' = orch_is_recording
           /\ current_session_id' = current_session_id ]_vars

\* a call whose second parameter is rejected has just been blocked while a session
\* was active and the memory collaborator was available
C1_Witness ==
    /\ ret.op = "execute_secure_action"
    /\ Gated(ret.arg.parameters)
    /\ FirstRejected(ret.arg.parameters) = 2
    /\ DictGet(ret.val, K("blocked"), Bool(FALSE)) = Bool(TRUE)
    /\ Active /\ orch_is_recording /\ memoryOK

\* C7: while the recorder has an active session, a call that passes the gate
\* appends exactly one action to it, with the call's type, tool and parameters
\* and the success flag and error of the dispatch result, whether the dispatch
\* succeeded or not; mark_action_start comes before the dispatch and
\* capture_action after it, once each.
C7_CapturedRegardless ==
    [][ (ret'.op = "execute_secure_action" /\ Active /\ ~Gated(ret'.arg.parameters))
        => /\ Active'
           /\ Len(current_session'.actions) = Len(current_session.actions) + 1
           /\ SubSeq(current_session'.actions, 1, Len(current_session.actions))
                 = current_session.actions
           /\ Payload(current_session'.actions[Len(current_session'.actions)])
                 = <<ret'.arg.action_type, ret'.arg.tool_name, ret'.arg.parameters,
                     DictGet(ret'.val, K("success"), Bool(TRUE)),
                     DictGet(ret'.val, K("error"), None)>>
           /\ current_session'.actions[Len(current_session'.actions)].duration_ms
                 = Num(DispatchTime)
           /\ Count(trace', "mark_action_start") = 1
           /\ Count(trace', "execute_action") = 1
           /\ Count(trace', "capture_action") = 1
           /\ Pos(trace', "mark_action_start") < Pos(trace', "execute_action")
           /\ Pos(trace', "execute_action") < Pos(trace', "capture_action") ]_vars

\* a call of an unknown action type has just been captured as a failed action,
\* after a successful one
C7_Witness ==
    /\ ret.op = "execute_secure_action" /\ Active
    /\ Len(current_session.actions) = 2
    /\ current_session.actions[1].success = Bool(TRUE)
    /\ current_session.actions[2].success = Bool(FALSE)
    /\ current_session.actions[2].action_type = Tok("shell")
    /\ ~IsNone(current_session.actions[2].error)
    /\ ~IsNone(current_session.actions[2].duration_ms)

----------------------------------------------------------------------------
(* Properties of the agent *)

Succeeded(result) == DictGet(result, K("success"), Bool(FALSE)) = Bool(TRUE)

Strategies == {Tok("proven"), Tok("exploratory"), Tok("cautious")}

\* C2: _decide_action returns a plan for every confidence, threshold and recalled
\* list, and the plan's strategy is proven when the confidence reaches the
\* threshold and some recalled experience is marked successful, exploratory when it
\* reaches the threshold and none is, cautious when it is below the threshold,
\* and never anything else.
C2_DecideStrategy ==
    IF agent.pc = "decide"
    THEN ENABLED Decide
    ELSE LET confidence == DictGet(agent.analysis, K("confidence"),
                                   Num(DefaultConfidence)).num
             threshold == agent.confidence_threshold
             recalled == agent.similar_experiences.list
             has_success ==
                 \E n \in DOMAIN recalled :
                     DictGet(recalled[n], K("success"), Bool(FALSE)) \in {Bool(TRUE), Num(1)}
             strategy == DictGet(agent.action_plan, K("strategy"), None)
         IN /\ IsDict(agent.action_plan)
            /\ strategy \in Strategies
            /\ (confidence >= threshold /\ has_success) => strategy = Tok("proven")
            /\ (confidence >= threshold /\ ~has_success) => strategy = Tok("exploratory")
            /\ (confidence < threshold) => strategy = Tok("cautious")

\* a confidence equal to the threshold and a recalled success after a recalled
\* failure have been decided as proven
C2_Witness ==
    /\ agent.pc # "decide"
    /\ agent.confidence_threshold = DefaultThreshold
    /\ agent.analysis = Dict(<< <<K("confidence"), Num(DefaultThreshold)>> >>)
    /\ agent.similar_experiences = List(<<PastFailure, PastSuccess>>)
    /\ DictGet(agent.action_plan, K("strategy"), None) = Tok("proven")

Primaries == SelectSeq(issued, LAMBDA e : e.phase = "EXECUTE")
Fallbacks == SelectSeq(issued, LAMBDA e : e.phase = "FALLBACK")

\* the cycle has a plan and _execute_action_plan has returned
Executed_plan == agent.pc \in {"learn", "done"} /\ IsDict(agent.action_plan)

\* the results list that analyze_and_act returned
ReturnedResults ==
    DictGet(DictGet(agent.outcome, K("result"), Dict(<<>>)), K("results"), None)

\* C8: the primary actions dispatched are the first actions of the plan, in the
\* plan's order; none is dispatched after one that was unsuccessful; the results
\* list holds the result of every one of them in that order, the failing one
\* included, and that list is what the cycle returns; the actions stop short of
\* the plan's end only at a failure.
C8_PrimariesInOrder ==
    IsDict(agent.action_plan)
    => /\ Len(Primaries) <= Len(PlanActions(agent))
       /\ \A k \in DOMAIN Primaries :
             /\ Primaries[k].call = ActionCall(PlanActions(agent)[k])
             /\ k < Len(Primaries) => Succeeded(Primaries[k].result)
             /\ k <= Len(agent.results)
             /\ agent.results[k] = Primaries[k].result
       /\ Executed_plan =>
             \/ Len(Primaries) = Len(PlanActions(agent))
             \/ ~Succeeded(Primaries[Len(Primaries)].result)
       /\ (agent.pc = "done") =>
             /\ ReturnedResults = List(agent.results)
             /\ Len(agent.results) >= Len(Primaries)

\* a plan of three actions has returned the results of two: the first succeeded,
\* the second failed, the third was never dispatched
C8_Witness ==
    /\ agent.pc = "done" /\ IsDict(agent.action_plan)
    /\ Len(PlanActions(agent)) = 3
    /\ Len(Primaries) = 2
    /\ ReturnedResults.list = <<Primaries[1].result, Primaries[2].result>>
    /\ Succeeded(Primaries[1].result)
    /\ ~Succeeded(Primaries[2].result)
    /\ DictGet(DictGet(agent.outcome, K("result"), None), K("success"), None)
          = Bool(FALSE)

\* C9 (as claimed): when a primary action has failed and the plan has fallback
\* actions, the fallbacks run in order until one succeeds, the plan's result
\* reports success=true if one of them succeeded, and it reports success=false
\* only if the plan has no fallback or every fallback failed.
C9_FallbackRescuesPlan ==
    (/\ agent.pc = "done" /\ IsDict(agent.action_plan)
     /\ \E k \in DOMAIN Primaries : ~Succeeded(Primaries[k].result))
    => LET reported == DictGet(DictGet(agent.outcome, K("result"), None),
                               K("success"), None)
           rescued == \E k \in DOMAIN Fallbacks : Succeeded(Fallbacks[k].result)
       IN /\ \A k \in DOMAIN Fallbacks :
                /\ Fallbacks[k].call = ActionCall(FallbackActions(agent)[k])
                /\ k < Len(Fallbacks) => ~Succeeded(Fallbacks[k].result)
          /\ rescued => reported = Bool(TRUE)
          /\ reported = Bool(FALSE) => (FallbackActions(agent) = <<>> \/ ~rescued)

\* C10: when the result of ANALYZE is unsuccessful, ANALYZE is the only action the
\* cycle issues, no experience is recalled and no plan is decided, and the cycle
\* has ended with success=false and the error of that result.
C10_AnalyzeFailureFatal ==
    (issued # <<>> /\ ~Truthy(DictGet(issued[1].result, K("success"), None)))
    => /\ Len(issued) = 1
       /\ issued[1].phase = "ANALYZE"
       /\ agent.pc = "done"
       /\ IsNone(agent.analysis)
       /\ IsNone(agent.similar_experiences)
       /\ IsNone(agent.action_plan)
       /\ DictGet(agent.outcome, K("success"), None) = Bool(FALSE)
       /\ DictGet(agent.outcome, K("error"), None)
             = Str(<<"Vision analysis failed: ">>
                   \o Text(DictGet(issued[1].result, K("error"), None)))

\* the gate has blocked the ANALYZE request and the cycle has ended
C10_Witness ==
    /\ agent.pc = "done"
    /\ Len(issued) = 1
    /\ issued[1].call = AnalyzeCall(agent.screenshot_path, agent.goal)
    /\ DictGet(issued[1].result, K("blocked"), None) = Bool(TRUE)
    /\ DictGet(agent.outcome, K("success"), None) = Bool(FALSE)

\* C11: when the RECALL search is unsuccessful the cycle goes on to DECIDE with an
\* empty list of experiences, and the plan it decides is exploratory or cautious,
\* never proven.
C11_RecallFailureDegrades ==
    (Len(issued) >= 2 /\ ~Truthy(DictGet(issued[2].result, K("success"), None)))
    => /\ issued[2].phase = "RECALL"
       /\ agent.similar_experiences = List(<<>>)
       /\ agent.pc = "decide" \/ IsDict(agent.action_plan) \/ ~IsDict(agent.analysis)
       /\ IsDict(agent.action_plan) =>
             DictGet(agent.action_plan, K("strategy"), None)
                \in {Tok("exploratory"), Tok("cautious")}
       /\ (agent.pc = "done" /\ IsDict(agent.analysis)) =>
             DictGet(agent.outcome, K("success"), None) = Bool(TRUE)

\* the memory collaborator raised during RECALL, the confidence was high, and the
\* cycle has ended successfully with an exploratory plan
C11_Witness ==
    /\ agent.pc = "done" /\ memoryOK
    /\ Len(issued) >= 2
    /\ issued[2].call = RecallCall(agent.goal)
    /\ ~Succeeded(issued[2].result)
    /\ IsDict(agent.analysis) /\ IsDict(agent.action_plan)
    /\ DictGet(agent.analysis, K("confidence"), None) = Num(9)
    /\ DictGet(agent.action_plan, K("strategy"), None) = Tok("exploratory")
    /\ DictGet(agent.outcome, K("success"), None) = Bool(TRUE)

\* C12 (as claimed): when learning is enabled and a cycle has completed EXECUTE,
\* and the memory collaborator is available and the gate has let the LEARN
\* request through, the request reaches the collaborator's store_workflow_memory
\* and the record is stored.
C12_LearnPersists ==
    (/\ agent.pc = "done" /\ agent.learning_enabled /\ IsDict(agent.action_plan)
     /\ memoryOK
     /\ ~Gated(LearnCall(agent).parameters))
    => /\ issued[Len(issued)].phase = "LEARN"
       /\ issued[Len(issued)].call = LearnCall(agent)
       /\ "store_workflow_memory" \in Range(trace)
       /\ Succeeded(issued[Len(issued)].result)

\* the requests of a phase among those issued
PhaseCount(phase) == Cardinality({k \in DOMAIN issued : issued[k].phase = phase})

\* C13: a LEARN request is issued in a cycle exactly when learning is enabled and
\* EXECUTE has finished: it is the last request of the cycle, it follows every
\* EXECUTE and FALLBACK request, a cycle with learning disabled issues none, and
\* the cycle returns the same outcome whatever the LEARN request returned.
C13_LearnAfterExecute ==
    /\ \A k \in DOMAIN issued :
          issued[k].phase = "LEARN" =>
             /\ k = Len(issued)
             /\ agent.learning_enabled
             /\ agent.pc = "done"
             /\ IsDict(agent.action_plan)
             /\ issued[k].call = LearnCall(agent)
    /\ (agent.pc = "done" /\ IsDict(agent.action_plan)) =>
          /\ PhaseCount("LEARN") = (IF agent.learning_enabled THEN 1 ELSE 0)
          /\ agent.outcome = CycleResult(agent)
          /\ DictGet(agent.outcome, K("success"), None) = Bool(TRUE)
          /\ DictGet(agent.outcome, K("result"), None) = PlanResult(agent)
    /\ agent.pc \in {"idle", "recall", "decide", "execute", "fallback", "learn"} =>
          PhaseCount("LEARN") = 0

C13_Witness ==
    /\ agent.pc = "done" /\ agent.learning_enabled /\ IsDict(agent.action_plan)
    /\ PhaseCount("EXECUTE") >= 2
    /\ issued[Len(issued)].phase = "LEARN"
    /\ ~Succeeded(issued[Len(issued)].result)
    /\ agent.outcome = CycleResult(agent)
    /\ DictGet(agent.outcome, K("learned"), None) = Bool(TRUE)

\* the confidence a cycle acted on: that of its action plan
CycleConfidence(h) ==
    LET action_plan == DictGet(h, K("action_plan"), None)
    IN IF IsDict(action_plan) THEN DictGet(action_plan, K("confidence"), Num(0)).num
       ELSE 0

\* a cycle result with success=true and a confidence above 0.8
Achieving(h) ==
    Truthy(DictGet(h, K("success"), Bool(FALSE))) /\ CycleConfidence(h) > GoalConfidence

\* C14 (as claimed): execute_goal_autonomously stops after the first iteration
\* whose cycle succeeded with a confidence above 0.8 and returns success=true
\* with that iteration's number; it runs all max_iterations iterations only when
\* no iteration is such a one.
C14_StopsWhenAchieved ==
    /\ \A k \in DOMAIN run.history :
          Achieving(run.history[k]) =>
             /\ run.goal_achieved
             /\ run.iteration = k
             /\ run.pc = "returned" =>
                   /\ DictGet(run.result, K("success"), None) = Bool(TRUE)
                   /\ DictGet(run.result, K("iterations"), None) = Num(k)
    /\ (run.pc = "returned" /\ \A k \in DOMAIN run.history : ~Achieving(run.history[k])) =>
          /\ run.iteration = run.max_iterations
          /\ DictGet(run.result, K("success"), None) = Bool(FALSE)

\* what holds of a run of execute_goal_autonomously in every state
RunInv ==
    /\ run.pc # "raised"
    /\ run.iteration <= run.max_iterations
    /\ Len(run.history) = (IF run.pc = "cycle" THEN run.iteration - 1 ELSE run.iteration)
    /\ \A k \in DOMAIN run.history :
          IsDict(run.history[k])
             /\ DictGet(run.history[k], K("success"), None) \in {Bool(TRUE), Bool(FALSE)}
    /\ (run.pc \in {"loop", "returned"} /\ run.iteration > 0) =>
          run.history[run.iteration] = agent.outcome
    /\ run.pc = "returned" =>
          /\ ret.op = "execute_goal_autonomously" /\ ~ret.raised /\ ret.val = run.result
          /\ DictGet(run.result, K("iterations"), None) = Num(run.iteration)
          /\ DictGet(run.result, K("history"), None) = List(run.history)
          /\ DictGet(run.result, K("goal"), None) = run.goal
          /\ DictGet(run.result, K("success"), None) = Bool(run.goal_achieved)
          /\ run.goal_achieved \/ run.iteration = run.max_iterations
          /\ ~run.goal_achieved => DictGet(run.result, K("success"), None) = Bool(FALSE)

\* the history only grows, by one entry at a time, at its end
HistoryStep ==
    /\ Len(run'.history) \in {Len(run.history), Len(run.history) + 1}
    /\ SubSeq(run'.history, 1, Len(run.history)) = run.history

\* how far a cycle has come: its phase, then the actions it has been through
CyclePosition(a) ==
    10 * (CASE a.pc = "idle" -> 0 [] a.pc = "recall" -> 1 [] a.pc = "decide" -> 2
            [] a.pc = "execute" -> 3 [] a.pc = "fallback" -> 4 [] a.pc = "learn" -> 5
            [] a.pc = "done" -> 6)
    + a.i + a.j

\* how far a run has come: the iterations it has been through, then the cycle
RunPosition ==
    CASE run.pc = "idle" -> 0
      [] run.pc = "cycle" -> 1 + 100 * (run.iteration - 1) + CyclePosition(agent)
      [] run.pc = "loop" -> 1 + 100 * run.iteration
      [] OTHER -> 2 + 100 * run.iteration

\* the guard of one of the steps of NextGoal holds: the run is to be called, is
\* at the head of its loop, or is in a cycle whose next request or step exists
HasStep ==
    \/ run.pc = "idle"
    \/ run.pc = "loop"
    \/ /\ run.pc = "cycle"
       /\ \/ agent.pc \in {"recall", "decide", "learn", "done"}
          \/ agent.pc = "execute" /\ agent.i \in DOMAIN PlanActions(agent)
          \/ agent.pc = "fallback" /\ agent.j \in DOMAIN FallbackActions(agent)

\* C15: for every max_iterations >= 0 and every outcome of the cycles, a run of
\* execute_goal_autonomously comes to an end and returns a result, raising
\* nothing: every step takes the run further, no run goes further than the end
\* of its last iteration, and a run that has not returned has a step to take.
\* Iterations never exceeds max_iterations; the history holds one entry per
\* iteration run, in the order of the iterations; and a run that exhausts its
\* iterations without achieving the goal returns success=false.
C15_RunTerminates ==
    /\ []RunInv
    /\ [](RunPosition <= 2 + 100 * run.max_iterations)
    /\ [](CyclePosition(agent) < 100)
    /\ [](run.pc # "returned" => HasStep)
    /\ [][RunPosition' > RunPosition /\ HistoryStep]_vars

C15_Witness ==
    /\ run.pc = "returned"
    /\ run.max_iterations = MaxIterations /\ run.iteration = MaxIterations
    /\ Len(run.history) = MaxIterations
    /\ DictGet(run.history[1], K("success"), None) = Bool(FALSE)
    /\ DictGet(run.history[2], K("success"), None) = Bool(TRUE)
    /\ DictGet(run.result, K("success"), None) = Bool(FALSE)

\* an ANALYZE request is issued in this step
AnalyzeIssued ==
    /\ Len(issued') = Len(issued) + 1
    /\ issued'[Len(issued')].phase = "ANALYZE"

\* C16: within a run of execute_goal_autonomously the iterations follow one
\* another: an ANALYZE request is issued only when the cycle before it, if
\* any, has returned and its outcome is in the history; no cycle is under way
\* while the loop is between iterations or has ended; and one cycle at most
\* has begun without having returned.
C16_Sequential ==
    /\ [](run.pc \in {"loop", "returned", "raised"} => agent.pc \in {"idle", "done"})
    /\ [](run.pc # "idle" =>
             /\ PhaseCount("ANALYZE") = run.iteration
             /\ PhaseCount("ANALYZE") - Len(run.history)
                   = (IF run.pc = "cycle" THEN 1 ELSE 0))
    /\ [][(run.pc # "idle" /\ AnalyzeIssued) =>
             /\ run.pc = "loop"
             /\ agent.pc \in {"idle", "done"}
             /\ run'.iteration = run.iteration + 1
             /\ Len(run.history) = run.iteration
             /\ run.iteration > 0 =>
                   /\ agent.pc = "done"
                   /\ run.history[run.iteration] = agent.outcome
                   /\ issued[Len(issued)].phase # "ANALYZE" \/ ~IsDict(agent.analysis)
                         \/ ~AnalysisSucceeded(issued[Len(issued)].result)]_vars

C16_Witness ==
    /\ run.pc = "cycle" /\ run.iteration = 2 /\ agent.pc = "execute"
    /\ PhaseCount("ANALYZE") = 2 /\ PhaseCount("LEARN") = 1
    /\ Len(run.history) = 1
    /\ \E k \in DOMAIN issued :
          /\ issued[k].phase = "LEARN" /\ issued[k + 1].phase = "ANALYZE"
          /\ \A n \in DOMAIN issued : issued[n].phase = "ANALYZE" => n \in {1, k + 1}

\* generate_workflow has been called
Generated == ~IsNone(workflow)

WorkflowSteps == DictGet(workflow, K("steps"), None).list
WorkflowVariables == DictGet(workflow, K("variables"), None).dict

\* the action identifiers of the recorded actions, in order
RecordedIds == [i \in DOMAIN recorded.actions |-> ActionId(recorded.actions[i])]

\* ids is copies contiguous copies of its first block_length items
IsCopies(ids, block_length, copies) ==
    /\ Len(ids) = block_length * copies
    /\ \A i \in DOMAIN ids : ids[i] = ids[((i - 1) % block_length) + 1]

\* the first block_length items of ids are not copies of a shorter block
ShortestUnit(ids, block_length) ==
    \A shorter \in 1..(block_length - 1) :
        block_length % shorter # 0
        \/ ~IsCopies(SubSeq(ids, 1, block_length), shorter, block_length \div shorter)

\* C17 (as claimed): a session whose action identifiers are N >= 2 contiguous
\* copies of a block of 2 to 10 identifiers that is its own shortest repeating
\* unit generates a workflow whose steps are one loop step, with the block as
\* its steps and N as its iterations, and nothing outside the loop.
C17_FullRepeatFolds ==
    Generated =>
       \A block_length \in 2..MaxPatternLength, copies \in 2..MaxActions :
          (/\ IsCopies(RecordedIds, block_length, copies)
           /\ ShortestUnit(RecordedIds, block_length)) =>
             /\ Len(WorkflowSteps) = 1
             /\ StepAction(WorkflowSteps[1]) = Tok("loop")
             /\ DictGet(WorkflowSteps[1], K("iterations"), None) = Num(copies)
             /\ LET pattern == DictGet(WorkflowSteps[1], K("steps"), List(<<>>)).list
                IN /\ Len(pattern) = block_length
                   /\ \A k \in DOMAIN pattern : StepAction(pattern[k]) = RecordedIds[k]

\* the recorded actions are two or more, all of one type and tool, and each has
\* the scalar value v as its parameter p
SharedParameter(p, v) ==
    /\ Len(recorded.actions) >= 2
    /\ IsScalar(v)
    /\ \A i \in DOMAIN recorded.actions :
          /\ ActionId(recorded.actions[i]) = RecordedIds[1]
          /\ HasKey(recorded.actions[i].parameters, p)
          /\ DictGet(recorded.actions[i].parameters, p, None) = v

\* the parameters the first recorded action has
FirstParameters ==
    IF recorded.actions = <<>> THEN {}
    ELSE Range(recorded.actions[1].parameters.dict)

\* the variables of the workflow that are bound to v
BoundTo(v) ==
    {n \in DOMAIN WorkflowVariables :
        DictGet(WorkflowVariables[n][2], K("value"), None) = v}

\* the variables of the workflow extracted from the group of parameter p
ExtractedFrom(p) ==
    {n \in DOMAIN WorkflowVariables :
        DictGet(WorkflowVariables[n][2], K("description"), None)
           = Str(<<"Extracted from ">> \o VariableKey(recorded.actions[1], p))}

\* the step carries in p a reference to a variable bound to v
CarriesReference(step, p, v) ==
    \E n \in BoundTo(v) :
        DictGet(DictGet(step, K("parameters"), Dict(<<>>)), p, None)
           = VarRef(WorkflowVariables[n][1])

\* the parameters of the i-th recorded action after substitution
Substituted(i) ==
    substitute_variables(recorded.actions[i].parameters,
                         DictGet(workflow, K("variables"), None))

\* C18 (as claimed): for a session of k >= 2 actions of one type and tool whose
\* parameter p has the same value in all of them, generate_workflow produces
\* exactly one variable bound to that value and a workflow of k steps, each of
\* which carries the variable reference in p.
C18_OneVariableEveryStep ==
    Generated =>
       \A pair \in FirstParameters :
          SharedParameter(pair[1], pair[2]) =>
             /\ Cardinality(BoundTo(pair[2])) = 1
             /\ Len(WorkflowSteps) = Len(recorded.actions)
             /\ \A k \in DOMAIN WorkflowSteps :
                   CarriesReference(WorkflowSteps[k], pair[1], pair[2])

\* C18 (amended): for such a session generate_workflow produces exactly one
\* variable for the group of p, bound to that value, and every step of the
\* workflow is an action step that carries in p a reference to a variable bound
\* to that value; the workflow has one step for every run of adjacent actions
\* whose parameters are equal after substitution: k steps only when no two
\* adjacent actions are so, and one step when all are.
C18_OneVariablePerGroup ==
    Generated =>
       \A pair \in FirstParameters :
          SharedParameter(pair[1], pair[2]) =>
             /\ Cardinality(ExtractedFrom(pair[1])) = 1
             /\ ExtractedFrom(pair[1]) \subseteq BoundTo(pair[2])
             /\ \A k \in DOMAIN WorkflowSteps :
                   /\ StepAction(WorkflowSteps[k]) = RecordedIds[1]
                   /\ CarriesReference(WorkflowSteps[k], pair[1], pair[2])
             /\ Len(WorkflowSteps)
                   = 1 + Cardinality({i \in 2..Len(recorded.actions) :
                                         ~PyEq(Substituted(i), Substituted(i - 1))})

C18_Witness ==
    /\ Generated
    /\ recorded.actions = <<TypeBar, TypeFoo, TypeBar, TypeBar>>
    /\ SharedParameter(K("selector"), Tok("#input"))
    /\ Len(WorkflowVariables) = 2
    /\ Len(WorkflowSteps) = 3
    /\ \A k \in DOMAIN WorkflowSteps :
          DictGet(DictGet(WorkflowSteps[k], K("parameters"), None), K("selector"), None)
             = VarRef(VarName(1))

\* C19: a session of two adjacent captured actions with the same type, tool and
\* parameters, both successful, generates a workflow with exactly one step for
\* them: the step of the first.
C19_AdjacentDuplicatesCollapse ==
    (/\ Generated
     /\ Len(recorded.actions) = 2
     /\ ActionId(recorded.actions[1]) = ActionId(recorded.actions[2])
     /\ PyEq(recorded.actions[1].parameters, recorded.actions[2].parameters)
     /\ Truthy(recorded.actions[1].success) /\ Truthy(recorded.actions[2].success))
    => /\ Len(WorkflowSteps) = 1
       /\ StepAction(WorkflowSteps[1]) = RecordedIds[1]
       /\ DictGet(WorkflowSteps[1], K("step"), None) = Num(1)
       /\ PyEq(DictGet(WorkflowSteps[1], K("parameters"), None), Substituted(1))

C19_Witness ==
    /\ Generated
    /\ recorded.actions = <<TypeFoo, TypeFoo>>
    /\ Len(WorkflowSteps) = 1
    /\ DictGet(WorkflowSteps[1], K("parameters"), None)
          = Dict(<< <<K("selector"), VarRef(VarName(1))>>,
                    <<K("text"), VarRef(VarName(2))>>,
                    <<K("keys"), List(<<Tok("Enter")>>)>> >>)

\* the steps of the workflow and, with them, the steps inside its loop steps
AllSteps ==
    Range(WorkflowSteps)
    \cup UNION {Range(DictGet(WorkflowSteps[k], K("steps"), List(<<>>)).list) :
                   k \in DOMAIN WorkflowSteps}

\* C20 (as claimed): every captured action with success=false is present in the
\* generated workflow as a step of its own that carries on_error='continue',
\* also when it is next to an identical action or lies inside a repeated block.
C20_FailedActionsKept ==
    Generated =>
       \A i \in DOMAIN recorded.actions :
          ~Truthy(recorded.actions[i].success) =>
             \E step \in AllSteps :
                /\ DictGet(step, K("step"), None) = Num(i)
                /\ StepAction(step) = RecordedIds[i]
                /\ DictGet(step, K("on_error"), None) = Tok("continue")

----------------------------------------------------------------------------
(* The memory write of execute_secure_action *)

\* the step is a call of execute_secure_action that made this many
\* store_action_memory calls, each received by the collaborator
WritesOfCall == Count(trace', "store_action_memory")

\* the call's store_action_memory call is the one _store_in_memory builds
WriteReceived ==
    memory_log' = Append(memory_log,
                         MemoryWrite(ret'.arg.action_type, ret'.arg.tool_name,
                                     ret'.arg.parameters, ret'.dispatched))

\* the call passed the gate and its dispatch result is successful
DispatchSucceeded ==
    /\ ~Gated(ret'.arg.parameters)
    /\ Succeeded(ret'.dispatched)

\* C21 as stated: store_action_memory is attempted if and only if the call passed
\* the gate and its dispatch result is successful, at most once per call; whether
\* the write fails or not, the caller gets exactly the dispatch result.
C21_WriteIffSuccess ==
    [][ ret'.op = "execute_secure_action"
        => /\ WritesOfCall <= 1
           /\ (WritesOfCall = 1) <=> DispatchSucceeded
           /\ (WritesOfCall = 1) => WriteReceived
           /\ (WritesOfCall = 0) => memory_log' = memory_log
           /\ (WritesOfCall = 1) => ret'.val = ret'.dispatched ]_vars

\* C21: store_action_memory is attempted if and only if the call passed the gate,
\* its dispatch result is successful and the memory collaborator is available, at
\* most once per call; whether the write fails or not, the caller gets exactly
\* the dispatch result.
C21_WriteIffSuccessAndMemory ==
    [][ ret'.op = "execute_secure_action"
        => /\ WritesOfCall <= 1
           /\ (WritesOfCall = 1) <=> (DispatchSucceeded /\ memoryOK)
           /\ (WritesOfCall = 1) => WriteReceived
           /\ (WritesOfCall = 0) => memory_log' = memory_log
           /\ (WritesOfCall = 1) => ret'.val = ret'.dispatched ]_vars

\* a successful call has just had its memory write fail, and returned the
\* successful dispatch result
C21_Witness ==
    /\ ret.op = "execute_secure_action"
    /\ Count(trace, "logger.error") = 1
    /\ Count(trace, "store_action_memory") = 1
    /\ Len(memory_log) >= 1
    /\ Succeeded(ret.val)
    /\ ret.val = ret.dispatched

----------------------------------------------------------------------------
(* The routing of _execute_action *)

\* the action types that have a domain handler, each named as its type
ActionTypes == {"vision", "memory", "browser", "hands"}

\* the handlers the call invoked
HandlersInvoked == {i \in DOMAIN trace' : trace'[i] \in ActionTypes}

UnknownActionType(action_type) ==
    Failure(<<"Unknown action type: ">> \o action_type.str)

IsKnownType(action_type) == \E t \in ActionTypes : action_type = Tok(t)

\* the routing the claim describes, for the call of this step
RoutedByType ==
    /\ ~ret'.raised
    /\ Count(trace', "execute_action") = 1
    /\ IF IsKnownType(ret'.arg.action_type)
       THEN /\ Cardinality(HandlersInvoked) = 1
            /\ \A i \in HandlersInvoked : Tok(trace'[i]) = ret'.arg.action_type
       ELSE /\ HandlersInvoked = {}
            /\ ret'.val = UnknownActionType(ret'.arg.action_type)
            /\ DictGet(ret'.val, K("success"), Bool(TRUE)) = Bool(FALSE)

\* C22 as stated: every call of execute_secure_action is routed by its type: a
\* type outside {vision, memory, browser, hands} gives success=false with the
\* unknown-action error, raises nothing and invokes no handler; a type inside the
\* set invokes exactly the handler of that type.
C22_RoutedByType ==
    [][ ret'.op = "execute_secure_action" => RoutedByType ]_vars

\* C22: every call of execute_secure_action that passes the security gate is
\* routed by its type: a type outside {vision, memory, browser, hands} gives
\* success=false with the unknown-action error, raises nothing and invokes no
\* handler; a type inside the set invokes exactly the handler of that type.  A
\* call the gate stops invokes no handler and returns the blocked result.
C22_RoutedByTypeAfterGate ==
    [][ ret'.op = "execute_secure_action"
        => IF Gated(ret'.arg.parameters)
           THEN /\ HandlersInvoked = {}
                /\ Count(trace', "execute_action") = 0
                /\ ret'.val = Blocked(ret'.arg.parameters)
                /\ ~ret'.raised
           ELSE RoutedByType ]_vars

\* a call of an unrecognized type has just passed the validator and returned the
\* unknown-action error without reaching a handler, while a session was recorded
C22_Witness ==
    /\ ret.op = "execute_secure_action"
    /\ securityOK /\ orch_is_recording
    /\ ret.arg.action_type = Tok("shell")
    /\ ret.val = UnknownActionType(Tok("shell"))
    /\ trace = <<"validate", "mark_action_start", "execute_action", "capture_action">>

----------------------------------------------------------------------------
(* The orchestrator's view of the recording *)

\* what get_status exposes is the recorder's state: recording or not, and the id
\* of the session being recorded
StatusMatchesRecorder ==
    /\ get_status(OrchState).is_recording = is_recording
    /\ get_status(OrchState).session_id
          = IF Active THEN current_session.session_id ELSE None

\* C23: after any sequence of the orchestrator's start_recording and
\* stop_recording calls, get_status agrees with the recorder; stop_recording
\* returns the id the latest start_recording returned and leaves the flag false,
\* and returns None when nothing is being recorded.
C23_StatusMatchesRecorder ==
    /\ []StatusMatchesRecorder
    /\ [][ ret'.op = "stop_recording"
           => /\ ~ret'.raised
              /\ ret'.val = current_session_id
              /\ ~orch_is_recording' /\ ~is_recording' ]_vars
    /\ [][ ret'.op = "start_recording"
           => /\ ~ret'.raised
              /\ current_session_id' = ret'.val ]_vars

----------------------------------------------------------------------------
(* The recorder without an active session *)

\* C24: with no active session, capture_action and stop_recording return None
\* without raising and change nothing: no session is created, no stored document
\* is written or changed, the timing map and the recording flag stay as they were.
C24_InactiveNoOp ==
    [][ (ret'.op \in {"capture_action", "stop_recording"} /\ ~Active)
        => /\ ret'.val = None
           /\ ~ret'.raised
           /\ current_session' = current_session
           /\ storage' = storage
           /\ action_start_times' = action_start_times
           /\ is_recording' = is_recording ]_vars

\* capture_action has just returned None with no session active, while a start
\* time was pending for the very action it was given and a sealed session was stored
C24_Witness ==
    /\ ret.op = "capture_action"
    /\ ~Active
    /\ ret.val = None
    /\ ActionKey(ret.arg.call.action_type, ret.arg.call.tool_name)
          \in DOMAIN action_start_times
    /\ DOMAIN storage # {}

----------------------------------------------------------------------------
(* Concurrent calls and the recorded session *)

\* the tasks whose call passed the gate and has returned
Contributors == {t \in Tasks : inflight[t].pc = "returned" /\ inflight[t].passed}

\* what the action captured for task t's call must hold
Contribution(t) ==
    <<inflight[t].call.action_type, inflight[t].call.tool_name,
      inflight[t].call.parameters,
      DictGet(inflight[t].result, K("success"), Bool(TRUE)),
      DictGet(inflight[t].result, K("error"), None)>>

\* the place in the list that capture_action reported for task t's action
PlaceOf(t, actions) ==
    {i \in DOMAIN actions : inflight[t].action_id = Str(<<"action_", ToString(i)>>)}

\* the list holds one action for each contributor, at a place of its own, and
\* nothing else
OneActionEach(actions) ==
    /\ Len(actions) = Cardinality(Contributors)
    /\ \A t \in Contributors :
          /\ Cardinality(PlaceOf(t, actions)) = 1
          /\ \A i \in PlaceOf(t, actions) : Payload(actions[i]) = Contribution(t)
    /\ \A t, u \in Contributors : t # u => PlaceOf(t, actions) # PlaceOf(u, actions)

\* the session has been sealed and stored
Sealed ==
    /\ ret.op = "stop_recording" /\ ~ret.raised /\ ~IsNone(ret.val)
    /\ ret.val \in DOMAIN storage

----------------------------------------------------------------------------
(* The variables of a generated workflow *)

\* the groups of scalar parameter values of the recorded session, one for each
\* (action type, tool, parameter name), with the values in the order observed
Groups == value_counts(recorded.actions)

\* where v is first observed among values
FirstObserved(values, v) == Least({i \in DOMAIN values : values[i] = v})

\* v occurs most often among values and, of the values that occur as often, is
\* the one observed first
MostFrequentFirstSeen(values, v) ==
    /\ v \in Range(values)
    /\ \A w \in Range(values) :
          \/ CountOf(values, w) < CountOf(values, v)
          \/ /\ CountOf(values, w) = CountOf(values, v)
             /\ FirstObserved(values, v) <= FirstObserved(values, w)

\* the variables of the workflow extracted from the group of this key
VariablesOf(key) ==
    {n \in DOMAIN WorkflowVariables :
        DictGet(WorkflowVariables[n][2], K("description"), None)
           = Str(<<"Extracted from ">> \o key)}

\* C26: every group with more than one observation has exactly one variable,
\* bound to the value that occurs most often in the group and, among the values
\* that occur as often, to the one observed first; a group with one observation
\* has none.
C26_MostFrequentFirstSeen ==
    Generated =>
       \A g \in DOMAIN Groups :
          IF Len(Groups[g].values) > 1
          THEN /\ Cardinality(VariablesOf(Groups[g].key)) = 1
               /\ \A n \in VariablesOf(Groups[g].key) :
                     MostFrequentFirstSeen(
                        Groups[g].values,
                        DictGet(WorkflowVariables[n][2], K("value"), None))
          ELSE VariablesOf(Groups[g].key) = {}

----------------------------------------------------------------------------
(* Loop detection, on the step lists the conversion produces *)

\* the while loop of _detect_and_optimize_loops has been left
LoopsDetected ==
    \/ pipeline.stage = "optimized"
    \/ pipeline.stage = "detecting" /\ pipeline.i >= Len(pipeline.steps)

\* the action identifiers of the steps given to loop detection
StepIds == [k \in DOMAIN pipeline.steps |-> StepAction(pipeline.steps[k])]

\* what loop detection returned
Detected == pipeline.optimized

IsLoop(step) == StepAction(step) = Tok("loop")

Iterations(step) == DictGet(step, K("iterations"), None).num

Pattern(step) == DictGet(step, K("steps"), List(<<>>)).list

\* after pos items of ids, a block of block_length items is followed by a copy
RepeatsAt(ids, pos, block_length) ==
    /\ pos + 2 * block_length <= Len(ids)
    /\ \A k \in 1..block_length : ids[pos + k] = ids[pos + block_length + k]

\* the lengths from 1 to 10 of the blocks that repeat after pos items
RepeatingLengths(ids, pos) ==
    {block_length \in 1..MaxPatternLength : RepeatsAt(ids, pos, block_length)}

\* C27: loop detection covers pattern length 1: a list that is a run of two or
\* more steps with one action identifier becomes one loop step whose pattern is
\* the single step; and whenever a block repeats at the start of the list, the
\* first step returned is a loop over the shortest such block.
C27_SingleStepRunsFold ==
    LoopsDetected =>
       /\ (Len(StepIds) >= 2 /\ \A k \in DOMAIN StepIds : StepIds[k] = StepIds[1])
             => /\ Len(Detected) = 1
                /\ IsLoop(Detected[1])
                /\ Pattern(Detected[1]) = <<pipeline.steps[1]>>
       /\ RepeatingLengths(StepIds, 0) # {}
             => /\ IsLoop(Detected[1])
                /\ Pattern(Detected[1])
                      = SubSeq(pipeline.steps, 1, Least(RepeatingLengths(StepIds, 0)))

\* the steps of the input that a returned step stands for, by the scan's count
Width(step) == IF IsLoop(step) THEN Len(Pattern(step)) * Iterations(step) ELSE 1

\* the steps of the input the scan had passed when it returned the k-th step
RECURSIVE PassedBefore(_, _)
PassedBefore(out, k) ==
    IF k <= 1 THEN 0 ELSE PassedBefore(out, k - 1) + Width(out[k - 1])

\* after pos items, ids holds this many contiguous copies of its next block
IsCopiesAt(ids, pos, block_length, copies) ==
    /\ pos + block_length * copies <= Len(ids)
    /\ \A n \in 1..(block_length * copies) :
          ids[pos + n] = ids[pos + ((n - 1) % block_length) + 1]

\* the number of contiguous copies of the block after pos items
CopiesAt(ids, pos, block_length) ==
    CHOOSE copies \in 1..Len(ids) :
       /\ IsCopiesAt(ids, pos, block_length, copies)
       /\ ~IsCopiesAt(ids, pos, block_length, copies + 1)

\* C28: every loop step that loop detection returns has a pattern of 1 to 10
\* steps, the steps of the input at its position, and at least 2 iterations, as
\* many as there are contiguous copies of the pattern at that position.
C28_IterationsCountCopies ==
    LoopsDetected =>
       \A k \in DOMAIN Detected :
          IsLoop(Detected[k]) =>
             LET pos == PassedBefore(Detected, k)
                 block_length == Len(Pattern(Detected[k]))
             IN /\ block_length \in 1..MaxPatternLength
                /\ Pattern(Detected[k])
                      = SubSeq(pipeline.steps, pos + 1, pos + block_length)
                /\ Iterations(Detected[k]) >= 2
                /\ Iterations(Detected[k]) = CopiesAt(StepIds, pos, block_length)

----------------------------------------------------------------------------
(* General optimization, on the step lists loop detection returns *)

Optimized == pipeline.stage = "optimized"

StepParameters(step) == DictGet(step, K("parameters"), None)

\* the k-th step is an action step with the identifier and the parameters of the
\* step immediately before it
ExactDuplicate(steps, k) ==
    /\ k > 1
    /\ ~IsLoop(steps[k])
    /\ StepAction(steps[k]) = StepAction(steps[k - 1])
    /\ PyEq(StepParameters(steps[k]), StepParameters(steps[k - 1]))

\* the first k steps without the exact duplicates, in order
RECURSIVE WithoutDuplicates(_, _)
WithoutDuplicates(steps, k) ==
    IF k = 0 THEN <<>>
    ELSE IF ExactDuplicate(steps, k) THEN WithoutDuplicates(steps, k - 1)
    ELSE Append(WithoutDuplicates(steps, k - 1), steps[k])

\* C29: _optimize_steps drops a step only if it is an exact duplicate (same
\* action identifier, same parameters after substitution) of the step immediately
\* before it; every other step, and every loop step that loop detection
\* returned, is kept, in order.
C29_OnlyDuplicatesDropped ==
    Optimized => pipeline.result = WithoutDuplicates(Detected, Len(Detected))

----------------------------------------------------------------------------
(* Conversion and loop detection keep the recorded order *)

Converted == pipeline.stage \in {"detecting", "optimized"}

\* copies copies of the sequence block, one after the other
RECURSIVE Repeated(_, _)
Repeated(block, copies) ==
    IF copies <= 0 THEN <<>> ELSE block \o Repeated(block, copies - 1)

\* the action identifiers of the returned steps, each loop step replaced by
\* `iterations` copies of its pattern
RECURSIVE Unfolded(_)
Unfolded(out) ==
    IF out = <<>> THEN <<>>
    ELSE LET last == out[Len(out)]
             ids == IF IsLoop(last)
                    THEN Repeated([k \in DOMAIN Pattern(last) |->
                                      StepAction(Pattern(last)[k])],
                                  Iterations(last))
                    ELSE <<StepAction(last)>>
         IN Unfolded(SubSeq(out, 1, Len(out) - 1)) \o ids

\* one step for each action, in the recorded order, numbered from 1 and named
\* '{action_type}.{tool_name}'
OneStepPerAction ==
    /\ Len(pipeline.steps) = Len(recorded.actions)
    /\ \A k \in DOMAIN pipeline.steps :
          /\ DictGet(pipeline.steps[k], K("step"), None) = Num(k)
          /\ StepAction(pipeline.steps[k])
                = Str(recorded.actions[k].action_type.str \o <<".">>
                      \o recorded.actions[k].tool_name.str)

\* C30: conversion gives one step for each action in the recorded order, named
\* '{action_type}.{tool_name}'; at every pass of the scan the steps returned so
\* far, with each loop step unfolded, are the identifiers of the steps passed so
\* far, so that the returned list unfolds to exactly the input; the scan index
\* never passes the end of the list and grows at every pass.
C30_OrderPreserved ==
    /\ [](Converted =>
            /\ OneStepPerAction
            /\ pipeline.i <= Len(pipeline.steps)
            /\ Unfolded(Detected) = SubSeq(StepIds, 1, pipeline.i)
            /\ LoopsDetected => Unfolded(Detected) = StepIds)
    /\ [][ (pipeline.stage = "detecting" /\ pipeline'.stage = "detecting")
           => pipeline'.i > pipeline.i ]_vars

\* the scan has returned two loop steps in a row and two plain steps for a
\* session of seven actions
C30_Witness ==
    /\ LoopsDetected
    /\ Len(recorded.actions) = 7
    /\ Len(Detected) = 4
    /\ IsLoop(Detected[1]) /\ IsLoop(Detected[2])
    /\ ~IsLoop(Detected[3]) /\ ~IsLoop(Detected[4])
    /\ Unfolded(Detected) = StepIds

----------------------------------------------------------------------------
(* Start times and durations *)

\* the key of the action a capture_action call was given
CapturedKey(in) == ActionKey(in.call.action_type, in.call.tool_name)

\* the start time an action's duration was measured from
StartOf(action) == action.timestamp.num - action.duration_ms.num

Timed(action) == ~IsNone(action.duration_ms)

\* the actions of the active session
SessionActions == IF Active THEN current_session.actions ELSE <<>>

\* C31: a start time marked for (type, tool) times at most one captured action:
\* the capture_action that uses it removes it, only mark_action_start adds one,
\* and a capture for the same (type, tool) with no mark since the last one
\* records no duration; so no two actions are timed from the same start.
C31_StartUsedOnce ==
    /\ [][ (ret'.op = "capture_action" /\ ret'.val # None)
           => LET key == CapturedKey(ret'.arg)
                  action == current_session'.actions[Len(current_session'.actions)]
              IN /\ key \notin DOMAIN action_start_times'
                 /\ Timed(action) <=> key \in DOMAIN action_start_times
                 /\ Timed(action) => StartOf(action) = action_start_times[key] ]_vars
    /\ [][ ret'.op # "mark_action_start"
           => DOMAIN action_start_times' \subseteq DOMAIN action_start_times ]_vars
    /\ [](\A i, j \in DOMAIN SessionActions :
            LET a == SessionActions[i]
                b == SessionActions[j]
            IN (/\ i < j /\ Timed(a) /\ Timed(b)
                /\ ActionKey(a.action_type, a.tool_name)
                      = ActionKey(b.action_type, b.tool_name))
               => StartOf(a) # StartOf(b))

\* two captures of the same (type, tool) after one mark: the first is timed, the
\* second, captured with no mark in between, has no duration
C31_Witness ==
    /\ ret.op = "capture_action"
    /\ Len(SessionActions) >= 2
    /\ LET n == Len(SessionActions)
           a == SessionActions[n - 1]
           b == SessionActions[n]
       IN /\ a.action_type = b.action_type
          /\ a.tool_name = b.tool_name
          /\ Timed(a)
          /\ ~Timed(b)
          /\ b.timestamp.num > a.timestamp.num

----------------------------------------------------------------------------
(* The sliding window of the rate limiter *)

\* no rate + 1 requests allowed for the pair lie within one window length
WithinRate(pair) ==
    LET times == granted[pair]
        limits == Limits(pair[2])
    IN \A i \in DOMAIN times :
          (i + limits.rate) \in DOMAIN times
             => times[i + limits.rate] - times[i] > limits.window

\* the bucket that counts the pair's requests
BucketOf(B, pair) ==
    LET bucket_key == BucketKey(pair[1], pair[2])
    IN IF bucket_key \in DOMAIN B THEN B[bucket_key] ELSE None

\* a call made for one pair leaves the count of every other pair as it was
KeysApart ==
    [][ ret'.op \in {"check_rate_limit", "get_remaining"}
        => \A pair \in Requests \ {ret'.arg} :
              BucketOf(buckets', pair) = BucketOf(buckets, pair) ]_vars

\* C32: under check_rate_limit, get_remaining and cleanup calls (no reset_limit),
\* the requests check_rate_limit allowed for an (identifier, action) within any
\* interval of the action's window length never exceed the action's rate, and
\* pairs that differ in identifier or action never affect each other's counts.
C32_SlidingWindow ==
    /\ [](\A pair \in Requests : WithinRate(pair))
    /\ KeysApart

----------------------------------------------------------------------------
(* Replay of a stored session *)

\* the stored session that is replayed, None when none was found
Replayed ==
    IF replay.pc = "idle" THEN None ELSE load_session(RecState, replay.workflow_name)

\* the call that replays the k-th recorded action
CallFor(k) ==
    [action_type |-> Replayed.actions[k].action_type,
     tool_name |-> Replayed.actions[k].tool_name,
     parameters |-> replay_parameters(Replayed.actions[k].parameters,
                                      replay.variables)]

\* the position of the first action whose result was unsuccessful, the session
\* length when there is none
FirstFailure ==
    LET failed == {k \in DOMAIN replay.results : ~Succeeded(replay.results[k])}
    IN IF failed = {} THEN Len(Replayed.actions) ELSE Least(failed)

ReplayInOrder ==
    ~IsNone(Replayed)
    => /\ Len(replay.calls) = Len(replay.results)
       /\ Len(replay.calls) <= Len(Replayed.actions)
       /\ \A k \in DOMAIN replay.calls : replay.calls[k] = CallFor(k)
       /\ \A k \in DOMAIN replay.results :
             k < Len(replay.results) => Succeeded(replay.results[k])
       /\ replay.pc = "loop"
             => /\ Len(replay.results) < Len(Replayed.actions)
                /\ \A k \in DOMAIN replay.results : Succeeded(replay.results[k])
       /\ replay.pc = "done"
             => /\ Len(replay.results) = FirstFailure
                /\ DictGet(replay.returned, K("actions_executed"), None)
                      = Num(FirstFailure)
                /\ DictGet(replay.returned, K("results"), None)
                      = List(replay.results)

\* a call is added to the replay only by a step through execute_secure_action,
\* which validates first when the validator is loaded and dispatches nothing
\* that the gate rejects
ReplayGated ==
    [][ replay'.calls # replay.calls
        => LET call == replay'.calls[Len(replay'.calls)]
           IN /\ replay'.calls = Append(replay.calls, call)
              /\ ret'.op = "execute_secure_action"
              /\ ret'.arg = call
              /\ ret'.val = replay'.results[Len(replay'.results)]
              /\ securityOK => trace'[1] = "validate"
              /\ (securityOK /\ ~validate_action(call.parameters))
                    => /\ ret'.val = Blocked(call.parameters)
                       /\ "execute_action" \notin Range(trace')
                       /\ memory_log' = memory_log ]_vars

\* C33: replay executes the recorded actions in recorded order, each through
\* execute_secure_action (none bypasses the gate), and none after the first whose
\* result is unsuccessful: actions_executed is the position of the first failing
\* action, or the session length when none fails.
C33_ReplayStopsAtFirstFailure ==
    /\ []ReplayInOrder
    /\ ReplayGated

\* a replay of three recorded actions has returned after two: the first succeeded,
\* the second, its variable replaced by an injection, was rejected by the gate
C33_Witness ==
    /\ replay.pc = "done"
    /\ ~IsNone(Replayed)
    /\ Len(Replayed.actions) = 3
    /\ Len(replay.results) = 2
    /\ Succeeded(replay.results[1])
    /\ DictGet(replay.results[2], K("blocked"), None) = Bool(TRUE)
    /\ replay.calls[2].parameters # Replayed.actions[2].parameters

----------------------------------------------------------------------------
(* A validator that raises *)

HasStringParameter(parameters) ==
    \E i \in DOMAIN parameters.dict : IsStr(parameters.dict[i][2])

\* the validator was loaded, was called on a string parameter and raised
ValidatorRaised ==
    /\ ret.op = "execute_secure_action"
    /\ securityOK
    /\ ret.validator = "raises"
    /\ HasStringParameter(ret.arg.parameters)

\* C34: when the validator raises while a string parameter is checked, the call
\* is rejected: nothing is dispatched, captured or written to memory, and the
\* call returns a failure result instead of raising.
C34_FailsClosed ==
    [][ ValidatorRaised'
        => /\ ~ret'.raised
           /\ DictGet(ret'.val, K("success"), None) = Bool(FALSE)
           /\ DictGet(ret'.val, K("blocked"), None) = Bool(TRUE)
           /\ ret'.dispatched = None
           /\ trace' = <<"validate">>
           /\ current_session' = current_session
           /\ action_start_times' = action_start_times
           /\ storage' = storage
           /\ memory_log' = memory_log ]_vars

\* while recording, with memory and vision loaded, a call whose parameters the
\* validator would accept was refused because the validator raised on them
C34_Witness ==
    /\ ValidatorRaised
    /\ Active /\ orch_is_recording
    /\ memoryOK /\ visionOK
    /\ ret.arg.action_type = Tok("vision")
    /\ validate_action(ret.arg.parameters)
    /\ DictGet(ret.val, K("blocked"), None) = Bool(TRUE)
    /\ current_session.actions = <<>>

----------------------------------------------------------------------------
(* The recording flag and the session held *)

\* the session held is stored under its id as it stands
Persisted(R, session) ==
    /\ session.session_id \in DOMAIN R.storage
    /\ Payloads(load_session(R, session.session_id).actions)
          = Payloads(session.actions)

\* C35: in every reachable state, also after a stop_recording (explicit, or the
\* implicit one of start_recording) whose save fails, is_recording is true exactly
\* when current_session is not None; so a session that was not saved is still
\* the active one, and start_recording does not replace it before it is saved.
C35_RecordingIffSession ==
    /\ [](is_recording <=> ~IsNone(current_session))
    /\ [][ (/\ ~IsNone(current_session)
            /\ ~IsNone(current_session')
            /\ current_session'.session_id # current_session.session_id)
           => Persisted(RecState', current_session) ]_vars

----------------------------------------------------------------------------
(* Durations of overlapping calls *)

\* the action captured for task t's call
ActionOf(t) ==
    current_session.actions[CHOOSE i \in PlaceOf(t, current_session.actions) : TRUE]

\* tasks t and u made a call for the same (type, tool) and both were captured
\* in the session being recorded
SameToolCaptured(t, u) ==
    /\ t # u
    /\ {t, u} \subseteq Contributors
    /\ ActionKey(inflight[t].call.action_type, inflight[t].call.tool_name)
          = ActionKey(inflight[u].call.action_type, inflight[u].call.tool_name)
    /\ PlaceOf(t, current_session.actions) # {}
    /\ PlaceOf(u, current_session.actions) # {}

\* C36: with two execute_secure_action calls for the same (type, tool) in flight
\* together while recording, under every interleaving of the mark and capture
\* steps each of the two captured actions has a duration, measured from its own
\* mark_action_start and not from the other call's.
C36_OwnDuration ==
    Active =>
        \A t, u \in Tasks :
            SameToolCaptured(t, u)
            => /\ Timed(ActionOf(t))
               /\ StartOf(ActionOf(t)) = inflight[t].marked_at.num

----------------------------------------------------------------------------
(* The session a call is recorded in *)

\* task t's call has just been captured
JustCaptured(t) ==
    /\ inflight[t].pc = "dispatching"
    /\ inflight'[t].pc = "returned"
    /\ ~IsNone(inflight'[t].action_id)

\* C37: a captured action is recorded in the session that was active when its
\* call began: when stop_recording and a new start_recording happen between the
\* call's mark and its capture, the action is not appended to the session that
\* was started after the call began.
C37_RecordedWhereBegun ==
    [][ \A t \in Tasks :
           JustCaptured(t)
           => current_session'.started_at.num < inflight[t].began_at.num ]_vars

----------------------------------------------------------------------------
(* The ANALYZE request at the gate *)

\* the goal and the screenshot path of the cycle are themselves acceptable to
\* the validator: the goal as free text, the path as a path
CleanCycleInputs ==
    /\ IsStr(agent.goal) /\ validate_input(agent.goal, "general")
    /\ IsStr(agent.screenshot_path) /\ validate_input(agent.screenshot_path, "path")

\* the first request of the cycle is the ANALYZE request of _analyze_situation
AnalyzeRequested ==
    /\ Len(issued) >= 1
    /\ issued[1].phase = "ANALYZE"
    /\ issued[1].call = AnalyzeCall(agent.screenshot_path, agent.goal)

\* C38: for a goal free of shell, SQL and HTML metacharacters and keywords and a
\* screenshot path inside the working directory, the gate with the shipped
\* SecurityValidator accepts the ANALYZE request built by _analyze_situation
\* ('prompt' validated as general text, 'screenshot_path' as a path), so the
\* request is not answered with a blocked result.
C38_AnalyzeAccepted ==
    (AnalyzeRequested /\ CleanCycleInputs /\ securityOK)
    => DictGet(issued[1].result, K("blocked"), None) # Bool(TRUE)

----------------------------------------------------------------------------
(* The agent's own state *)

\* what __init__ set on the agent, apart from the orchestrator
OwnState(a) ==
    <<a.task_history, a.current_task, a.confidence_threshold, a.max_retries,
      a.learning_enabled>>

\* the figures of a get_agent_stats result
StatOf(stats, name) == DictGet(stats, K(name), None)

\* the result of get_agent_stats is the one held in ret
StatsReturned == ret.op = "get_agent_stats"

\* the figures get_agent_stats returned add up over the task history, and its
\* settings are the agent's
StatsAddUp ==
    StatsReturned
    => /\ StatOf(ret.val, "total_decisions") = Num(Len(agent.task_history))
       /\ StatOf(ret.val, "successful_actions").num
             + StatOf(ret.val, "failed_actions").num
             = StatOf(ret.val, "total_decisions").num
       /\ StatOf(ret.val, "successful_actions").num
             = Cardinality({i \in DOMAIN agent.task_history :
                               HasKey(agent.task_history[i], K("success"))
                               /\ Truthy(DictGet(agent.task_history[i],
                                                 K("success"), None))})
       /\ StatOf(ret.val, "current_task") = agent.current_task
       /\ StatOf(ret.val, "learning_enabled") = Bool(agent.learning_enabled)
       /\ StatOf(ret.val, "confidence_threshold") = Num(agent.confidence_threshold)

\* C39: a goal cycle leaves the agent's own state as it was: no step of
\* analyze_and_act or of execute_goal_autonomously changes task_history,
\* current_task, confidence_threshold, max_retries or learning_enabled; and
\* get_agent_stats changes nothing at all, its successful and failed counts
\* adding up to total_decisions, which is the number of task_history entries.
C39_OwnStateUnchanged ==
    /\ [][OwnState(agent') = OwnState(agent)]_vars
    /\ [][ret'.op = "get_agent_stats"
          => UNCHANGED <<clock, recVars, orchVars, envVars, agentVars>>]_vars
    /\ []StatsAddUp

\* get_agent_stats has been called once a run of two full cycles with LEARN has
\* returned, for an agent whose history holds successes, a failure and an entry
\* that says neither
C39_Witness ==
    /\ StatsReturned
    /\ run.pc = "returned"
    /\ Len(run.history) = 2
    /\ \E i \in DOMAIN issued : issued[i].phase = "LEARN"
    /\ Len(agent.task_history) = 4
    /\ StatOf(ret.val, "successful_actions") = Num(2)
    /\ StatOf(ret.val, "failed_actions") = Num(2)
    /\ ~IsNone(agent.current_task)

----------------------------------------------------------------------------
(* The success flag of a cycle *)

\* the cycle has returned
CycleDone == agent.pc = "done" /\ issued # <<>>

\* the ANALYZE request was answered with a success
AnalyzeSucceeded == Truthy(DictGet(issued[1].result, K("success"), None))

\* a step after ANALYZE raised: _decide_action, given an analysis that is no
\* dictionary
StepRaised ==
    /\ AnalyzeSucceeded
    /\ ~IsDict(DictGet(issued[1].result, K("result"), Dict(<<>>)))

\* what the cycle returned at the top level and for its plan
TopSuccess == DictGet(agent.outcome, K("success"), None)
NestedSuccess == DictGet(DictGet(agent.outcome, K("result"), None), K("success"), None)

\* a primary action failed and so did every fallback tried after it
AllFailed ==
    /\ \E k \in DOMAIN Primaries : ~Succeeded(Primaries[k].result)
    /\ Fallbacks # <<>>
    /\ \A k \in DOMAIN Fallbacks : ~Succeeded(Fallbacks[k].result)

\* the plan decided had no actions, and none was executed
EmptyPlan ==
    /\ IsDict(agent.action_plan)
    /\ PlanActions(agent) = <<>>
    /\ Primaries = <<>> /\ Fallbacks = <<>>

\* C40: the success flag analyze_and_act returns is true exactly when ANALYZE
\* succeeded and no step raised, whatever became of the plan: a cycle whose
\* primary action and fallbacks all failed returns success=true with
\* success=false nested under result, and a cycle whose plan had no actions
\* returns success=true with the plan's success=true nested under result.
C40_SuccessIgnoresPlan ==
    CycleDone
    => /\ TopSuccess = Bool(AnalyzeSucceeded /\ ~StepRaised)
       /\ TopSuccess = Bool(TRUE)
          => /\ DictGet(agent.outcome, K("result"), None) = PlanResult(agent)
             /\ NestedSuccess
                   = Bool(\A k \in DOMAIN Primaries : Succeeded(Primaries[k].result))
       /\ (AnalyzeSucceeded /\ AllFailed)
          => TopSuccess = Bool(TRUE) /\ NestedSuccess = Bool(FALSE)
       /\ EmptyPlan
          => TopSuccess = Bool(TRUE) /\ NestedSuccess = Bool(TRUE)

\* a cycle has returned whose primary action and whose fallback both failed
C40_Witness ==
    /\ CycleDone
    /\ AnalyzeSucceeded
    /\ AllFailed
    /\ TopSuccess = Bool(TRUE)
    /\ NestedSuccess = Bool(FALSE)

====
